---- MODULE Spec2Model ----
(***************************************************************************)
(* Admission controller of the AML gateway: the sliding-window / burst     *)
(* rate limiter with its shared (Redis) and local (Map) stores, temporary  *)
(* IP blocking, the periodic sweep and the /api middleware chain.          *)
(*                                                                         *)
(* Time is counted in ticks of 500 ms: SECOND = 2 ticks is the literal     *)
(* 1000 of the source.  The limits are the environment-configurable        *)
(* values of rateLimiter.js, set small.                                    *)
(***************************************************************************)
EXTENDS Integers, Sequences, FiniteSets, TLC

\* ------------------------------------------------------------ configuration
RATE_LIMIT_WINDOW_MS == 5
RATE_LIMIT_MAX_REQUESTS == 4
RATE_LIMIT_BURST == 2
RATE_LIMIT_PREFIX == "rl:"
SECOND == 2

\* ------------------------------------------------------------------- bounds
MaxTime == 12
MaxChecks == 6

\* --------------------------------------------------------------- JS numbers
\* undefined and NaN: a missing field read as a number.  Every comparison
\* with it is false and every arithmetic result is NaN again.  The value
\* standing for it lies far outside the numbers the model computes.
NaN == 0 - 1000000

Sub(a, b) == IF a = NaN \/ b = NaN THEN NaN ELSE a - b
Add(a, b) == IF a = NaN \/ b = NaN THEN NaN ELSE a + b
Inc(a) == Add(a, 1)
Gt(a, b) == a # NaN /\ b # NaN /\ a > b
Lt(a, b) == a # NaN /\ b # NaN /\ a < b
Le(a, b) == a # NaN /\ b # NaN /\ a <= b
Ge(a, b) == a # NaN /\ b # NaN /\ a >= b
MathMax0(a) == IF a = NaN THEN NaN ELSE IF a > 0 THEN a ELSE 0
\* Math.ceil(ms / 1000), in seconds
CeilSeconds(ms) ==
  IF ms = NaN THEN NaN
  ELSE IF ms >= 0 THEN (ms + SECOND - 1) \div SECOND
  ELSE 0 - ((0 - ms) \div SECOND)

\* --------------------------------------------------------------- identities
Identities == {"a", "blocked:a", "burst:a"}
BlockedKey(ip) == "blocked:" \o ip
MemKeys == Identities \cup {BlockedKey(ip) : ip \in Identities}
StartsWithBlocked(key) == Len(key) >= 8 /\ SubSeq(key, 1, 8) = "blocked:"

RateKey(ip) == RATE_LIMIT_PREFIX \o ip
BurstKey(ip) == RATE_LIMIT_PREFIX \o "burst:" \o ip
BlockKey(ip) == RATE_LIMIT_PREFIX \o "blocked:" \o ip
RedisKeys ==
  {RateKey(ip) : ip \in Identities} \cup {BurstKey(ip) : ip \in Identities}
    \cup {BlockKey(ip) : ip \in Identities}

VARIABLES
  now,          \* Date.now() and the store's clock, in ticks
  redisClient,  \* TRUE when a client was constructed (REDIS_URL / REDIS_HOST set)
  isConnected,  \* redis.js: isConnected
  memoryStore,  \* rateLimiter.js: memoryStore (rate records and block entries)
  redis,        \* the shared store: key -> entry
  log,          \* history: one entry per rateLimit call, in order
  blockEnd,     \* history: identity -> end of the latest block a store took, 0 if none
  last,         \* history: the latest block operation and how it ended
  pipes,        \* checkRateLimitRedis calls whose pipeline is in the store
  reqs,         \* /api requests: where each is in the middleware chain
  pool,         \* database.js: pool, the physical connections and their sessions
  activeConnections,  \* database.js: activeConnections
  leases,       \* the clients getClient() returned, one per holder
  runs,         \* transaction(), batch and direct getClient() callers in progress
  committed,    \* the database: the effects that are persisted
  env,          \* process.env as the validator reads it (strict mode, table lists)
  lastIndex,    \* queryValidator.js: lastIndex of the block-comment pattern (/g)
  called,       \* history: the latest direct validateQuery / sanitizer call
  handled       \* history: the latest /api/query request and what it caused

vars ==
  <<now, redisClient, isConnected, memoryStore, redis, log, blockEnd, last,
    pipes, reqs, pool, activeConnections, leases, runs, committed,
    env, lastIndex, called, handled>>
database == <<pool, activeConnections, leases, runs, committed>>
policy == <<env, lastIndex, called, handled>>
gateway ==
  <<now, redisClient, isConnected, memoryStore, redis, log, blockEnd, last,
    pipes, reqs, policy>>
flight == <<pipes, reqs, database, policy>>

\* ---------------------------------------------------------- the local store
NoRecord ==
  [present |-> FALSE, windowStart |-> NaN, count |-> NaN,
   burstWindowStart |-> NaN, burstCount |-> NaN, blockedUntil |-> NaN]

NewRateRecord(t) ==
  [present |-> TRUE, windowStart |-> t, count |-> 0,
   burstWindowStart |-> t, burstCount |-> 0, blockedUntil |-> NaN]

BlockEntry(until) ==
  [present |-> TRUE, windowStart |-> NaN, count |-> NaN,
   burstWindowStart |-> NaN, burstCount |-> NaN, blockedUntil |-> until]

\* line 89: !record || now - record.windowStart > RATE_LIMIT_WINDOW_MS
WindowExpired(record, t) ==
  ~record.present \/ Gt(Sub(t, record.windowStart), RATE_LIMIT_WINDOW_MS)

\* line 100: now - record.burstWindowStart > 1000
BurstWindowExpired(record, t) == Gt(Sub(t, record.burstWindowStart), SECOND)

\* checkRateLimitMemory: the record after the call
MemoryRecordAfter(store, clientIP, t) ==
  LET r0 == store[clientIP]
      r1 == IF WindowExpired(r0, t) THEN NewRateRecord(t) ELSE r0
      r2 == IF BurstWindowExpired(r1, t)
            THEN [r1 EXCEPT !.burstWindowStart = t, !.burstCount = 0]
            ELSE r1
  IN [r2 EXCEPT !.count = Inc(@), !.burstCount = Inc(@)]

\* checkRateLimitMemory: the returned object
MemoryResult(record) ==
  [allowed |-> Le(record.count, RATE_LIMIT_MAX_REQUESTS)
                 /\ Le(record.burstCount, RATE_LIMIT_BURST),
   count |-> record.count,
   burstCount |-> record.burstCount,
   remaining |-> MathMax0(Sub(RATE_LIMIT_MAX_REQUESTS, record.count)),
   resetAt |-> Add(record.windowStart, RATE_LIMIT_WINDOW_MS),
   isBurst |-> Gt(record.burstCount, RATE_LIMIT_BURST)]

checkRateLimitMemory(store, clientIP, t) ==
  LET rec == MemoryRecordAfter(store, clientIP, t)
  IN [store |-> [store EXCEPT ![clientIP] = rec],
      result |-> MemoryResult(rec),
      oldest |-> rec.windowStart]

\* --------------------------------------------------------- the shared store
NoKey == [type |-> "none", z |-> <<>>, expireAt |-> 0]

\* a key whose TTL has run out is gone
Live(e, t) == IF e.expireAt # 0 /\ e.expireAt <= t THEN NoKey ELSE e

\* ZREMRANGEBYSCORE key lo hi: both ends inclusive; an emptied set is deleted
ZRemRangeByScore(e, lo, hi) ==
  IF e.type # "zset" THEN e
  ELSE LET keep(s) == ~(lo <= s /\ s <= hi)
           z2 == SelectSeq(e.z, keep)
       IN IF z2 = <<>> THEN NoKey ELSE [e EXCEPT !.z = z2]

ZCard(e) == IF e.type = "zset" THEN Len(e.z) ELSE 0

\* ZADD key score member: members are unique (`${now}-${Math.random()}`)
ZAdd(e, score) ==
  LET lower(s) == s <= score
      upper(s) == s > score
      z0 == IF e.type = "zset" THEN e.z ELSE <<>>
  IN [type |-> "zset",
      z |-> SelectSeq(z0, lower) \o <<score>> \o SelectSeq(z0, upper),
      expireAt |-> IF e.type = "zset" THEN e.expireAt ELSE 0]

\* PEXPIRE key ms, at the store's time t
PExpire(e, t, ms) == IF e.type = "none" THEN e ELSE [e EXCEPT !.expireAt = t + ms]

\* SET key '1' PX ms
SetPX(t, ms) == [type |-> "string", z |-> <<>>, expireAt |-> t + ms]
\* GET key === '1'
GetIsOne(e) == e.type = "string"

MinScore(e, dflt) ==
  IF e.type = "zset" /\ e.z # <<>> THEN e.z[1] ELSE dflt

\* One call of checkRateLimitRedis: its identity, its Date.now() (line 25),
\* the number of pipeline commands the store has run, and the two ZCARD
\* replies (results[1][1], results[5][1]).  oldest is history: the oldest
\* score the sustained count included.
PipelineLength == 8
NewCall(clientIP, t) ==
  [ip |-> clientIP, t |-> t, pc |-> 0,
   requestCount |-> 0, burstCount |-> 0, oldest |-> t]

\* lines 36-52: the store runs the call's next command at its time clock
PipelineCommand(store, c, clock) ==
  LET key == RateKey(c.ip)
      burstKey == BurstKey(c.ip)
      n == c.pc + 1
      c2 == [c EXCEPT !.pc = n]
  IN CASE n = 1 ->
            [store |-> [store EXCEPT ![key] =
                          ZRemRangeByScore(@, 0, c.t - RATE_LIMIT_WINDOW_MS)],
             call |-> c2]
       [] n = 2 ->
            [store |-> store,
             call |-> [c2 EXCEPT !.requestCount = ZCard(store[key]),
                                 !.oldest = MinScore(store[key], c.t)]]
       [] n = 3 ->
            [store |-> [store EXCEPT ![key] = ZAdd(@, c.t)], call |-> c2]
       [] n = 4 ->
            [store |-> [store EXCEPT ![key] =
                          PExpire(@, clock, RATE_LIMIT_WINDOW_MS)],
             call |-> c2]
       [] n = 5 ->
            [store |-> [store EXCEPT ![burstKey] =
                          ZRemRangeByScore(@, 0, c.t - SECOND)],
             call |-> c2]
       [] n = 6 ->
            [store |-> store,
             call |-> [c2 EXCEPT !.burstCount = ZCard(store[burstKey])]]
       [] n = 7 ->
            [store |-> [store EXCEPT ![burstKey] = ZAdd(@, c.t)], call |-> c2]
       [] OTHER ->
            [store |-> [store EXCEPT ![burstKey] = PExpire(@, clock, SECOND)],
             call |-> c2]

\* the rest of the pipeline, run back to back
RECURSIVE RunPipeline(_, _, _)
RunPipeline(store, c, clock) ==
  IF c.pc >= PipelineLength THEN [store |-> store, call |-> c]
  ELSE LET step == PipelineCommand(store, c, clock)
       IN RunPipeline(step.store, step.call, clock)

\* lines 60-67: the returned object
RedisResult(requestCount, burstCount, t) ==
  [allowed |-> requestCount < RATE_LIMIT_MAX_REQUESTS
                 /\ burstCount < RATE_LIMIT_BURST,
   count |-> requestCount + 1,
   burstCount |-> burstCount + 1,
   remaining |-> MathMax0(RATE_LIMIT_MAX_REQUESTS - requestCount - 1),
   resetAt |-> t + RATE_LIMIT_WINDOW_MS,
   isBurst |-> burstCount >= RATE_LIMIT_BURST]

\* what checkRateLimitRedis returns once the pipeline's replies are in
RedisOutcome(store, c) ==
  [store |-> store,
   result |-> RedisResult(c.requestCount, c.burstCount, c.t),
   oldest |-> c.oldest]

\* checkRateLimitRedis with no other command between the pipeline's commands
checkRateLimitRedis(store, clientIP, t) ==
  LET run == RunPipeline(store, NewCall(clientIP, t), t)
  IN RedisOutcome(run.store, run.call)

\* redis.js: isRedisConnected
isRedisConnected == isConnected /\ redisClient

\* ------------------------------------------------------------- the handler
\* rateLimit, lines 129-156: headers, 429 or next()
Response(ip, t, backend, chk) ==
  [ip |-> ip, t |-> t, backend |-> backend,
   allowed |-> chk.result.allowed,
   count |-> chk.result.count,
   burstCount |-> chk.result.burstCount,
   isBurst |-> chk.result.isBurst,
   remaining |-> chk.result.remaining,
   resetAt |-> chk.result.resetAt,
   oldest |-> chk.oldest,
   status |-> IF chk.result.allowed THEN "next" ELSE "429",
   retryAfter |-> IF chk.result.allowed THEN NaN
                  ELSE IF chk.result.isBurst THEN 1
                  ELSE CeilSeconds(Sub(chk.result.resetAt, now))]

\* rateLimit(req, res, next) for a request of identity ip.  pipeline is what
\* becomes of pipeline.exec(): "ok", or a rejection before ("lost") or after
\* ("late") the store ran the commands; a rejection falls back to the local
\* store (line 77).
RateLimit(ip, pipeline) ==
  /\ Len(log) < MaxChecks
  /\ IF isRedisConnected
     THEN LET r == checkRateLimitRedis(redis, ip, now)
              m == checkRateLimitMemory(memoryStore, ip, now)
          IN /\ redis' = IF pipeline = "lost" THEN redis ELSE r.store
             /\ memoryStore' = IF pipeline = "ok" THEN memoryStore ELSE m.store
             /\ log' = Append(log,
                   IF pipeline = "ok" THEN Response(ip, now, "redis", r)
                   ELSE Response(ip, now, "memory", m))
     ELSE LET m == checkRateLimitMemory(memoryStore, ip, now)
          IN /\ pipeline = "ok"
             /\ redis' = redis
             /\ memoryStore' = m.store
             /\ log' = Append(log, Response(ip, now, "memory", m))
  /\ UNCHANGED <<now, redisClient, isConnected, blockEnd, last>>

\* ---------------------------------------------------------------- blocking
NoOp == [op |-> "none", ip |-> "", t |-> 0, status |-> "", due |-> FALSE]

\* blockIP(ip, durationMs).  call is what becomes of the store's reply when
\* the store is the backend: "ok", or a rejection before ("lost") or after
\* ("late") the store ran the command; redis.set is awaited with no handler,
\* so a rejection is blockIP's own.
BlockIP(ip, durationMs, call) ==
  /\ IF isRedisConnected
     THEN /\ redis' = IF call = "lost" THEN redis
                      ELSE [redis EXCEPT ![BlockKey(ip)] = SetPX(now, durationMs)]
          /\ memoryStore' = memoryStore
          /\ blockEnd' = IF call = "lost" THEN blockEnd
                         ELSE [blockEnd EXCEPT ![ip] = now + durationMs]
          /\ last' = [op |-> "blockIP", ip |-> ip, t |-> now,
                      status |-> IF call = "ok" THEN "ok" ELSE "threw",
                      due |-> FALSE]
     ELSE /\ call = "ok"
          /\ memoryStore' = [memoryStore EXCEPT
                               ![BlockedKey(ip)] = BlockEntry(now + durationMs)]
          /\ redis' = redis
          /\ blockEnd' = [blockEnd EXCEPT ![ip] = now + durationMs]
          /\ last' = [op |-> "blockIP", ip |-> ip, t |-> now,
                      status |-> "ok", due |-> FALSE]
  /\ UNCHANGED <<now, redisClient, isConnected, log>>

\* isIPBlocked on the local store, lines 190-195: the answer and the store
BlockEntryActive(record, t) == record.present /\ Gt(record.blockedUntil, t)

isIPBlockedMemory(store, ip, t) ==
  IF BlockEntryActive(store[BlockedKey(ip)], t)
  THEN [blocked |-> TRUE, store |-> store]
  ELSE [blocked |-> FALSE, store |-> [store EXCEPT ![BlockedKey(ip)] = NoRecord]]

\* isIPBlocked on the shared store, lines 186-188
isIPBlockedRedis(store, ip) == GetIsOne(store[BlockKey(ip)])

\* checkIPBlock(req, res, next) for a request of identity ip: 403 or next();
\* redis.get is awaited with no handler, so a rejected call ("lost") leaves
\* the middleware's promise rejected.
CheckIPBlock(ip, call) ==
  /\ IF isRedisConnected
     THEN /\ call \in {"ok", "lost"}
          /\ memoryStore' = memoryStore
          /\ last' = [op |-> "checkIPBlock", ip |-> ip, t |-> now,
                      status |-> IF call = "lost" THEN "threw"
                                 ELSE IF isIPBlockedRedis(redis, ip) THEN "403"
                                 ELSE "next",
                      due |-> now < blockEnd[ip]]
     ELSE LET r == isIPBlockedMemory(memoryStore, ip, now)
          IN /\ call = "ok"
             /\ memoryStore' = r.store
             /\ last' = [op |-> "checkIPBlock", ip |-> ip, t |-> now,
                         status |-> IF r.blocked THEN "403" ELSE "next",
                         due |-> now < blockEnd[ip]]
  /\ UNCHANGED <<now, redisClient, isConnected, redis, log, blockEnd>>

\* the setInterval callback, lines 224-235
SweepKeeps_HalfWindow(key, record, t) ==
  IF StartsWithBlocked(key)
  THEN ~Lt(record.blockedUntil, t)
  ELSE ~(record.windowStart # NaN
           /\ Gt(Sub(t, record.windowStart), RATE_LIMIT_WINDOW_MS \div 2))
SweepKeeps(key, record, t) ==
  IF StartsWithBlocked(key)
  THEN ~Lt(record.blockedUntil, t)
  ELSE ~(record.windowStart # NaN
           /\ Gt(Sub(t, record.windowStart), RATE_LIMIT_WINDOW_MS * 2))

Sweep ==
  /\ memoryStore' = [k \in MemKeys |->
        IF memoryStore[k].present /\ ~SweepKeeps(k, memoryStore[k], now)
        THEN NoRecord ELSE memoryStore[k]]
  /\ memoryStore' # memoryStore
  /\ UNCHANGED <<now, redisClient, isConnected, redis, log, blockEnd, last>>

\* ------------------------------------------------------------ connectivity
\* redis.js lines 69-96: the client's 'connect', 'error' and 'close' events
RedisConnect ==
  /\ redisClient /\ ~isConnected
  /\ isConnected' = TRUE
  /\ UNCHANGED <<now, redisClient, memoryStore, redis, log, blockEnd, last>>

RedisError ==
  /\ redisClient /\ isConnected
  /\ isConnected' = FALSE
  /\ UNCHANGED <<now, redisClient, memoryStore, redis, log, blockEnd, last>>

RedisClose ==
  /\ redisClient /\ isConnected
  /\ isConnected' = FALSE
  /\ UNCHANGED <<now, redisClient, memoryStore, redis, log, blockEnd, last>>

\* the clock advances; the store drops the keys whose TTL has run out
Tick ==
  /\ now < MaxTime
  /\ now' = now + 1
  /\ redis' = [k \in RedisKeys |-> Live(redis[k], now + 1)]
  /\ UNCHANGED <<redisClient, isConnected, memoryStore, log, blockEnd, last>>

\* ------------------------------------------------------------ the database
\* database.js. Time for the database side is counted in ticks of 30 s.
DB_POOL_MAX == 1
DB_STATEMENT_TIMEOUT == 1
RELEASE_TIMEOUT == 2

Conns == 1..DB_POOL_MAX

\* a physical connection and its server session
NoConnection ==
  [open |-> FALSE, leased |-> FALSE, queryable |-> FALSE, tx |-> "none",
   pending |-> {}, statement_timeout |-> DB_STATEMENT_TIMEOUT,
   saved_timeout |-> DB_STATEMENT_TIMEOUT]

NewConnection ==
  [NoConnection EXCEPT !.open = TRUE, !.queryable = TRUE]

NoError == [step |-> "", index |-> 0]
Failure(step, index) == [step |-> step, index |-> index]

\* What the server does with one command on a session. outcome is "ok",
\* "error" (the statement fails) or "timeout" (it is cancelled by the
\* session's statement timeout); a failure inside a transaction block
\* aborts the block, which then refuses everything but COMMIT and ROLLBACK.
EndBlock(conn) ==
  [conn EXCEPT !.tx = "none", !.pending = {},
               !.statement_timeout =
                  IF conn.tx = "none" THEN @ ELSE conn.saved_timeout]

Execute(conn, db, command, arg, outcome) ==
  IF ~conn.queryable
  THEN [conn |-> conn, db |-> db, failed |-> TRUE]
  ELSE IF command = "ROLLBACK"
  THEN [conn |-> EndBlock(conn), db |-> db, failed |-> FALSE]
  ELSE IF command = "COMMIT"
  THEN IF conn.tx = "open" /\ outcome = "ok"
       THEN [conn |-> [conn EXCEPT !.tx = "none", !.pending = {}],
             db |-> db \cup conn.pending, failed |-> FALSE]
       ELSE [conn |-> EndBlock(conn), db |-> db,
             failed |-> conn.tx = "open"]
  ELSE IF conn.tx = "aborted"
  THEN [conn |-> conn, db |-> db, failed |-> TRUE]
  ELSE IF outcome # "ok"
  THEN [conn |-> IF conn.tx = "open" THEN [conn EXCEPT !.tx = "aborted"]
                 ELSE conn,
        db |-> db, failed |-> TRUE]
  ELSE IF command = "BEGIN"
  THEN [conn |-> IF conn.tx = "open" THEN conn
                 ELSE [conn EXCEPT !.tx = "open",
                                   !.saved_timeout = conn.statement_timeout],
        db |-> db, failed |-> FALSE]
  ELSE IF command = "SET"
  THEN [conn |-> [conn EXCEPT !.statement_timeout = arg],
        db |-> db, failed |-> FALSE]
  ELSE \* a data statement whose effect is arg
       IF conn.tx = "open"
       THEN [conn |-> [conn EXCEPT !.pending = @ \cup {arg}],
             db |-> db, failed |-> FALSE]
       ELSE [conn |-> conn, db |-> db \cup {arg}, failed |-> FALSE]

\* ---- the pool (pg.Pool as database.js uses it)
Idle(cs) == {c \in Conns : cs[c].open /\ ~cs[c].leased}
Closed(cs) == {c \in Conns : ~cs[c].open}

\* pool.connect(): an idle client if there is one, else a new connection
\* while fewer than max are open ('connect' event, line 488); else the
\* caller waits
PoolConnect(cs, active) ==
  IF Idle(cs) # {}
  THEN {[pool |-> [cs EXCEPT ![c].leased = TRUE],
         activeConnections |-> active, client |-> c] : c \in Idle(cs)}
  ELSE IF Closed(cs) # {}
  THEN LET c == CHOOSE x \in Closed(cs) : \A y \in Closed(cs) : x <= y
       IN {[pool |-> [cs EXCEPT ![c] = [NewConnection EXCEPT !.leased = TRUE]],
            activeConnections |-> active + 1, client |-> c]}
  ELSE {}

\* the pool's own release: with an error argument, or when the client can
\* no longer be queried, the connection is closed and removed ('remove'
\* event, line 492); else it goes back to the idle list with its session
originalRelease(cs, active, c, err) ==
  IF err \/ ~cs[c].queryable
  THEN [pool |-> [cs EXCEPT ![c] = NoConnection],
        activeConnections |-> active - 1]
  ELSE [pool |-> [cs EXCEPT ![c].leased = FALSE],
        activeConnections |-> active]

\* ---- getClient (lines 570-595)
Holders == 1..2

NoLease ==
  [conn |-> 0, released |-> FALSE, releaseTimeout |-> "none", age |-> 0,
   diagnostics |-> 0, poolReleases |-> 0, threw |-> FALSE]

NewLease(c) ==
  [NoLease EXCEPT !.conn = c, !.releaseTimeout = "pending"]

\* lines 587-592: the release getClient installs on the client
ClientRelease_KeepTimer(lease, cs, active, err) ==
  IF lease.released
  THEN [lease |-> lease, pool |-> cs, activeConnections |-> active]
  ELSE LET out == originalRelease(cs, active, lease.conn, err)
       IN [lease |-> [lease EXCEPT !.released = TRUE,
                                   !.poolReleases = @ + 1],
           pool |-> out.pool,
           activeConnections |-> out.activeConnections]
ClientRelease_NoGuard(lease, cs, active, err) ==
  IF lease.released
  THEN \* the pool's release called again: it throws
       [lease |-> [lease EXCEPT !.poolReleases = @ + 1, !.threw = TRUE],
        pool |-> cs, activeConnections |-> active]
  ELSE LET out == originalRelease(cs, active, lease.conn, err)
       IN [lease |-> [lease EXCEPT
                        !.released = TRUE,
                        !.releaseTimeout =
                           IF @ = "pending" THEN "cleared" ELSE @,
                        !.poolReleases = @ + 1],
           pool |-> out.pool,
           activeConnections |-> out.activeConnections]
ClientRelease(lease, cs, active, err) ==
  IF lease.released
  THEN [lease |-> lease, pool |-> cs, activeConnections |-> active]
  ELSE LET out == originalRelease(cs, active, lease.conn, err)
       IN [lease |-> [lease EXCEPT
                        !.released = TRUE,
                        !.releaseTimeout =
                           IF @ = "pending" THEN "cleared" ELSE @,
                        !.poolReleases = @ + 1],
           pool |-> out.pool,
           activeConnections |-> out.activeConnections]

\* lines 576-585: the releaseTimeout callback, 60 s after getClient
ReleaseTimeoutFires_LogOnly(h) ==
  /\ leases[h].releaseTimeout = "pending"
  /\ leases[h].age >= RELEASE_TIMEOUT
  /\ leases' = [leases EXCEPT ![h].releaseTimeout = "fired",
                              ![h].diagnostics = @ + 1]
  /\ UNCHANGED <<pool, activeConnections, runs, committed, gateway>>
ReleaseTimeoutFires(h) ==
  /\ leases[h].releaseTimeout = "pending"
  /\ leases[h].age >= RELEASE_TIMEOUT
  /\ LET fired == [leases[h] EXCEPT !.releaseTimeout = "fired"]
         out == ClientRelease(fired, pool, activeConnections, TRUE)
     IN IF ~fired.released
        THEN /\ leases' = [leases EXCEPT
                             ![h] = [out.lease EXCEPT !.diagnostics = @ + 1]]
             /\ pool' = out.pool
             /\ activeConnections' = out.activeConnections
        ELSE /\ leases' = [leases EXCEPT ![h] = fired]
             /\ UNCHANGED <<pool, activeConnections>>
  /\ UNCHANGED <<runs, committed, gateway>>

\* ---- the callers
\* The statements of a request: a data statement, and the transaction
\* command that is not idle where the request runs (COMMIT inside
\* transaction()'s block, BEGIN on the pooled sessions a batch uses). The
\* validator lets both through.
MaxStatements == 3
Lists(statements) ==
  UNION {[1..n -> statements] : n \in 1..MaxStatements}
StatementLists == Lists({"write", "COMMIT"})
BatchLists == Lists({"write", "BEGIN"})
\* the request's timeout field: absent (30000 by default) or 90 s
Timeouts == {DB_STATEMENT_TIMEOUT, 3}

NoRun ==
  [kind |-> "none", pc |-> "idle", queries |-> <<>>, timeout |-> 0, i |-> 0,
   wait |-> 0, error |-> NoError, thrown |-> NoError, issued |-> <<>>,
   calls |-> 0, before |-> 0, disconnected |-> FALSE]

Querying(run) ==
  run.pc \in {"BEGIN", "SET", "statement", "COMMIT", "ROLLBACK"}

\* the client the holder's code still uses can be queried
Held(h) == leases[h].conn # 0 /\ ~leases[h].released

Effect(h, i) == <<h, i>>

\* the command transaction() awaits at each position (lines 607-615 and
\* query.js line 112) and its argument
Command(run) ==
  IF run.pc = "statement" THEN run.queries[run.i] ELSE run.pc

Argument(h, run) ==
  IF run.pc = "SET" THEN run.timeout ELSE Effect(h, run.i)

\* the run starts to await the command at its position: the command is
\* issued on client c, whose lease the holder has or has not at that moment
Issue(run, c, held) ==
  IF Querying(run)
  THEN [run EXCEPT !.wait = 0,
                   !.issued = Append(@, [command |-> Command(run),
                                         index |-> run.i, conn |-> c,
                                         held |-> held])]
  ELSE [run EXCEPT !.wait = 0]

\* a caller takes a client with getClient() and keeps it
CallerAcquire(h) ==
  /\ runs[h].kind = "none"
  /\ \E o \in PoolConnect(pool, activeConnections) :
       /\ pool' = o.pool
       /\ activeConnections' = o.activeConnections
       /\ leases' = [leases EXCEPT ![h] = NewLease(o.client)]
       /\ runs' = [runs EXCEPT ![h] = [NoRun EXCEPT !.kind = "caller",
                                                   !.pc = "holding"]]
  /\ UNCHANGED <<committed, gateway>>

MaxReleaseCalls == 2

\* the caller calls client.release(), once more each time
CallerRelease(h) ==
  /\ runs[h].kind = "caller"
  /\ runs[h].calls < MaxReleaseCalls
  /\ LET out == ClientRelease(leases[h], pool, activeConnections, FALSE)
     IN /\ leases' = [leases EXCEPT ![h] = out.lease]
        /\ pool' = out.pool
        /\ activeConnections' = out.activeConnections
  /\ runs' = [runs EXCEPT ![h].calls = @ + 1]
  /\ UNCHANGED <<committed, gateway>>

\* query.js lines 87-119: POST /api/query/transaction calls transaction()
StartTransaction(h, queries, timeout) ==
  /\ runs[h].kind = "none"
  /\ runs' = [runs EXCEPT ![h] =
        [NoRun EXCEPT !.kind = "transaction", !.pc = "getClient",
                      !.queries = queries, !.timeout = timeout,
                      !.before = activeConnections]]
  /\ UNCHANGED <<pool, activeConnections, leases, committed, gateway>>

\* the HTTP client of the request goes away while transaction() runs: the
\* route (query.js lines 87-128) has no 'close' or 'aborted' listener, so
\* nothing but the socket changes
ClientDisconnect(h) ==
  /\ runs[h].kind = "transaction" /\ runs[h].pc # "done"
  /\ ~runs[h].disconnected
  /\ runs' = [runs EXCEPT ![h].disconnected = TRUE]
  /\ UNCHANGED <<pool, activeConnections, leases, committed, gateway>>

\* line 604: const client = await getClient()
TxGetClient(h) ==
  /\ runs[h].kind = "transaction" /\ runs[h].pc = "getClient"
  /\ \E o \in PoolConnect(pool, activeConnections) :
       /\ pool' = o.pool
       /\ activeConnections' = o.activeConnections
       /\ leases' = [leases EXCEPT ![h] = NewLease(o.client)]
       /\ runs' = [runs EXCEPT ![h] =
             Issue([runs[h] EXCEPT !.pc = "BEGIN"], o.client, TRUE)]
  /\ UNCHANGED <<committed, gateway>>

\* line 604, pool.connect() rejecting after connectionTimeoutMillis: the
\* error leaves transaction() before its try block
TxConnectTimeout(h) ==
  /\ runs[h].kind = "transaction" /\ runs[h].pc = "getClient"
  /\ PoolConnect(pool, activeConnections) = {}
  /\ runs' = [runs EXCEPT ![h].pc = "done",
                          ![h].thrown = Failure("getClient", 0)]
  /\ UNCHANGED <<pool, activeConnections, leases, committed, gateway>>

\* where transaction() goes after the awaited command resolves or rejects
AfterQuery_NoCatch(run, failed) ==
  IF failed
  THEN [run EXCEPT !.pc = "release", !.thrown = Failure(run.pc, run.i)]
  ELSE IF run.pc = "BEGIN" THEN [run EXCEPT !.pc = "SET"]
  ELSE IF run.pc = "SET" THEN [run EXCEPT !.pc = "statement", !.i = 1]
  ELSE IF run.pc = "statement" /\ run.i < Len(run.queries)
  THEN [run EXCEPT !.i = @ + 1]
  ELSE IF run.pc = "statement" THEN [run EXCEPT !.pc = "COMMIT", !.i = 0]
  ELSE [run EXCEPT !.pc = "release"]
AfterQuery_CommitAnyway(run, failed) ==
  IF run.pc = "ROLLBACK"
  THEN [run EXCEPT !.pc = "release",
                   !.thrown = IF failed THEN Failure("ROLLBACK", 0)
                              ELSE run.error]
  ELSE IF failed /\ run.pc # "statement"
  THEN [run EXCEPT !.pc = "ROLLBACK", !.error = Failure(run.pc, run.i)]
  ELSE IF run.pc = "BEGIN" THEN [run EXCEPT !.pc = "SET"]
  ELSE IF run.pc = "SET" THEN [run EXCEPT !.pc = "statement", !.i = 1]
  ELSE IF run.pc = "statement" /\ run.i < Len(run.queries)
  THEN [run EXCEPT !.i = @ + 1,
                   !.error = IF failed /\ @ = NoError
                             THEN Failure(run.pc, run.i) ELSE @]
  ELSE IF run.pc = "statement"
  THEN [run EXCEPT !.pc = "COMMIT", !.i = 0,
                   !.error = IF failed /\ @ = NoError
                             THEN Failure(run.pc, run.i) ELSE @]
  ELSE [run EXCEPT !.pc = "release"]
AfterQuery_NoFinally(run, failed) ==
  IF run.pc = "ROLLBACK"
  THEN IF failed
       THEN [run EXCEPT !.pc = "done", !.thrown = Failure("ROLLBACK", 0)]
       ELSE [run EXCEPT !.pc = "release", !.thrown = run.error]
  ELSE IF failed
  THEN [run EXCEPT !.pc = "ROLLBACK", !.error = Failure(run.pc, run.i)]
  ELSE IF run.pc = "BEGIN" THEN [run EXCEPT !.pc = "SET"]
  ELSE IF run.pc = "SET" THEN [run EXCEPT !.pc = "statement", !.i = 1]
  ELSE IF run.pc = "statement" /\ run.i < Len(run.queries)
  THEN [run EXCEPT !.i = @ + 1]
  ELSE IF run.pc = "statement" THEN [run EXCEPT !.pc = "COMMIT", !.i = 0]
  ELSE [run EXCEPT !.pc = "release"]
AfterQuery(run, failed) ==
  IF run.pc = "ROLLBACK"
  THEN [run EXCEPT !.pc = "release",
                   !.thrown = IF failed THEN Failure("ROLLBACK", 0)
                              ELSE run.error]
  ELSE IF failed
  THEN [run EXCEPT !.pc = "ROLLBACK", !.error = Failure(run.pc, run.i)]
  ELSE IF run.pc = "BEGIN" THEN [run EXCEPT !.pc = "SET"]
  ELSE IF run.pc = "SET" THEN [run EXCEPT !.pc = "statement", !.i = 1]
  ELSE IF run.pc = "statement" /\ run.i < Len(run.queries)
  THEN [run EXCEPT !.i = @ + 1]
  ELSE IF run.pc = "statement" THEN [run EXCEPT !.pc = "COMMIT", !.i = 0]
  ELSE [run EXCEPT !.pc = "release"]

\* the outcomes the awaited command can have: it is cancelled when it has
\* run for the session's statement timeout, and only data statements and
\* COMMIT fail on their own
Outcomes(h) ==
  IF Held(h) /\ runs[h].wait >= pool[leases[h].conn].statement_timeout
  THEN {"timeout"}
  ELSE IF runs[h].pc \in {"statement", "COMMIT"} THEN {"ok", "error"}
  ELSE {"ok"}

\* lines 607-615: the client.query that transaction() awaits resolves or
\* rejects, and transaction() goes on to its next await
TxQuery(h, outcome) ==
  /\ runs[h].kind = "transaction" /\ Querying(runs[h])
  /\ outcome \in Outcomes(h)
  /\ LET run == runs[h]
         c == leases[h].conn
     IN IF Held(h)
        THEN LET r == Execute(pool[c], committed, Command(run),
                              Argument(h, run), outcome)
             IN /\ pool' = [pool EXCEPT ![c] = r.conn]
                /\ committed' = r.db
                /\ runs' = [runs EXCEPT ![h] =
                      Issue(AfterQuery(run, r.failed), c, TRUE)]
        ELSE \* the client was closed under the transaction: the query rejects
             /\ runs' = [runs EXCEPT ![h] =
                   Issue(AfterQuery(run, TRUE), c, FALSE)]
             /\ UNCHANGED <<pool, committed>>
  /\ UNCHANGED <<activeConnections, leases, gateway>>

\* line 618: finally { client.release() }
TxRelease(h) ==
  /\ runs[h].kind = "transaction" /\ runs[h].pc = "release"
  /\ LET out == ClientRelease(leases[h], pool, activeConnections, FALSE)
     IN /\ leases' = [leases EXCEPT ![h] = out.lease]
        /\ pool' = out.pool
        /\ activeConnections' = out.activeConnections
  /\ runs' = [runs EXCEPT ![h].pc = "done"]
  /\ UNCHANGED <<committed, gateway>>

\* ---- POST /api/query/batch (query.js lines 42-80)
StartBatch(h, queries) ==
  /\ runs[h].kind = "none"
  /\ runs' = [runs EXCEPT ![h] =
        [NoRun EXCEPT !.kind = "batch", !.pc = "query", !.queries = queries,
                      !.i = 1, !.before = activeConnections]]
  /\ UNCHANGED <<pool, activeConnections, leases, committed, gateway>>

\* query.js line 66 and database.js lines 525-564: await query(...), which
\* is pool.query: a client is taken, the statement run, and the client
\* given back, with the error when there is one. "late" is the driver's
\* query_timeout passing while the server still completes the statement.
BatchQuery(h, outcome) ==
  /\ runs[h].kind = "batch" /\ runs[h].pc = "query"
  /\ \E o \in PoolConnect(pool, activeConnections) :
       LET run == runs[h]
           c == o.client
           r == Execute(o.pool[c], committed, run.queries[run.i],
                        Effect(h, run.i),
                        IF outcome = "late" THEN "ok" ELSE outcome)
           failed == r.failed \/ outcome = "late"
           out == originalRelease([o.pool EXCEPT ![c] = r.conn],
                                  o.activeConnections, c, failed)
           issued == Append(run.issued,
                            [command |-> run.queries[run.i], index |-> run.i,
                             conn |-> c, held |-> TRUE])
       IN /\ pool' = out.pool
          /\ activeConnections' = out.activeConnections
          /\ committed' = r.db
          /\ runs' = [runs EXCEPT ![h] =
                IF failed
                THEN [run EXCEPT !.pc = "done", !.issued = issued,
                                 !.thrown = Failure("statement", run.i)]
                ELSE IF run.i < Len(run.queries)
                THEN [run EXCEPT !.i = @ + 1, !.issued = issued]
                ELSE [run EXCEPT !.pc = "done", !.issued = issued]]
  /\ UNCHANGED <<leases, gateway>>

\* pool.query rejecting after connectionTimeoutMillis with every connection
\* leased
BatchConnectTimeout(h) ==
  /\ runs[h].kind = "batch" /\ runs[h].pc = "query"
  /\ PoolConnect(pool, activeConnections) = {}
  /\ runs' = [runs EXCEPT ![h].pc = "done",
                          ![h].thrown = Failure("statement", runs[h].i)]
  /\ UNCHANGED <<pool, activeConnections, leases, committed, gateway>>

\* ---- the environment of the pool
\* a connection is lost: an idle one is removed by the pool at once, a
\* leased one stays with its holder, no longer queryable, its open
\* transaction block rolled back by the server
ConnectionLost(c) ==
  /\ pool[c].open /\ pool[c].queryable
  /\ IF pool[c].leased
     THEN /\ pool' = [pool EXCEPT ![c] = [@ EXCEPT !.queryable = FALSE,
                                                   !.tx = "none",
                                                   !.pending = {}]]
          /\ UNCHANGED activeConnections
     ELSE /\ pool' = [pool EXCEPT ![c] = NoConnection]
          /\ activeConnections' = activeConnections - 1
  /\ UNCHANGED <<leases, runs, committed, gateway>>

\* idleTimeoutMillis: the pool closes a connection that stayed idle
IdleTimeout(c) ==
  /\ pool[c].open /\ ~pool[c].leased
  /\ pool' = [pool EXCEPT ![c] = NoConnection]
  /\ activeConnections' = activeConnections - 1
  /\ UNCHANGED <<leases, runs, committed, gateway>>

\* 30 s pass: no pending releaseTimeout is overdue and no awaited command
\* has outlived its statement timeout
DbTick ==
  /\ \A h \in Holders :
       /\ leases[h].releaseTimeout = "pending" => leases[h].age < RELEASE_TIMEOUT
       /\ (Querying(runs[h]) /\ Held(h))
            => runs[h].wait < pool[leases[h].conn].statement_timeout
  /\ leases' = [h \in Holders |->
        IF leases[h].releaseTimeout = "pending"
        THEN [leases[h] EXCEPT !.age = @ + 1] ELSE leases[h]]
  /\ runs' = [h \in Holders |->
        IF Querying(runs[h]) /\ Held(h)
        THEN [runs[h] EXCEPT !.wait = @ + 1] ELSE runs[h]]
  /\ UNCHANGED <<pool, activeConnections, committed, gateway>>

InitDatabase ==
  /\ pool = [c \in Conns |-> NoConnection]
  /\ activeConnections = 0
  /\ leases = [h \in Holders |-> NoLease]
  /\ runs = [h \in Holders |-> NoRun]
  /\ committed = {}

\* ---------------------------------------------------------- request values
\* A JSON value of a request body. A text (a string's content, an object's
\* key) is a sequence of lexemes: a keyword, a punctuation mark, a piece of an
\* identifier, each standing for its characters.
Undefined == [type |-> "undefined"]
Null == [type |-> "null"]
Num(n) == [type |-> "number", n |-> n]
Str(text) == [type |-> "string", text |-> text]
\* an array: items, then more further copies of the last item
Repeat(items, more) == [type |-> "array", items |-> items, more |-> more]
Arr(items) == Repeat(items, 0)
\* an object: its own keys in insertion order, and their values
Obj(keys, values) == [type |-> "object", keys |-> keys, values |-> values]

\* text.length: the characters of each lexeme ("x{50001}" is a run of 50001)
RECURSIVE Length(_)
Length(text) ==
  LET Width(x) ==
        CASE x = "x{50001}" -> 50001
          [] x \in {" ", ";", ".", "*", "\"", "'", "=", "(", ")", ",", "t", "T",
                    "0", "1", "9", "\n"} -> 1
          [] x \in {"$1", "$2", "$3", "$4", "$n", "--"} -> 2
          [] x \in {"pg_", "my_", "SET", "AND"} -> 3
          [] x \in {"DROP", "FROM", "INTO", "JOIN", "null", "5000"} -> 4
          [] x \in {"/*c*/", "WHERE", "BEGIN", "30000"} -> 5
          [] x \in {"SELECT", "DELETE", "INSERT", "UPDATE", "VALUES", "COMMIT"} -> 6
          [] x = "ROLLBACK" -> 8
          [] x \in {"RETURNING", "undefined"} -> 9
          [] x = "statement_timeout" -> 17
          [] OTHER -> 7
  IN IF text = <<>> THEN 0 ELSE Width(Head(text)) + Length(Tail(text))

toLowerCase(text) ==
  LET LowerOf(x) ==
        CASE x = "T" -> "t"
          [] x = "DROP" -> "drop"     [] x = "FROM" -> "from"
          [] x = "INTO" -> "into"     [] x = "JOIN" -> "join"
          [] x = "WHERE" -> "where"   [] x = "SELECT" -> "select"
          [] x = "DELETE" -> "delete" [] x = "INSERT" -> "insert"
          [] x = "UPDATE" -> "update" [] x = "VALUES" -> "values"
          [] x = "RETURNING" -> "returning" [] x = "SET" -> "set"
          [] x = "AND" -> "and"       [] x = "BEGIN" -> "begin"
          [] x = "COMMIT" -> "commit" [] x = "ROLLBACK" -> "rollback"
          [] OTHER -> x
  IN [i \in DOMAIN text |-> LowerOf(text[i])]

IsSpace(x) == x \in {" ", "\n"}                          \* \s
IsWord(x) ==                                             \* a run of \w
  x \notin {" ", "\n", ";", ".", "*", "\"", "'", "=", "(", ")", ",", "$1",
            "$2", "$3", "$4", "$n", "--", "/*c*/"}
IsQuote(x) == x \in {"\"", "'"}
Is(x, keyword) == toLowerCase(<<x>>) = toLowerCase(<<keyword>>)   \* the /i flag

includes(text, part) ==
  \E i \in 0..(Len(text) - Len(part)) :
    SubSeq(text, i + 1, i + Len(part)) = part
startsWith(text, part) ==
  Len(part) <= Len(text) /\ SubSeq(text, 1, Len(part)) = part

\* the first index at or after i that holds no white space (Len + 1 if none)
RECURSIVE SkipSpaces(_, _)
SkipSpaces(text, i) ==
  IF i <= Len(text) /\ IsSpace(text[i]) THEN SkipSpaces(text, i + 1) ELSE i
\* the last index of the run of \w that starts at i
RECURSIVE WordEnd(_, _)
WordEnd(text, i) ==
  IF i + 1 <= Len(text) /\ IsWord(text[i + 1]) THEN WordEnd(text, i + 1) ELSE i

Truthy(v) ==
  /\ v.type \notin {"undefined", "null"}
  /\ v.type = "string" => v.text # <<>>
  /\ v.type = "number" => v.n # 0
IsArray(v) == v.type = "array"
\* v.length as a number, NaN where it is undefined
LengthOf(v) ==
  CASE v.type = "string" -> Length(v.text)
    [] v.type = "array" -> Len(v.items) + v.more
    [] OTHER -> NaN
\* the elements of an array, in order
Elements(v) == v.items \o [i \in 1..v.more |-> v.items[Len(v.items)]]
\* o[key] for an object o
Get(o, key) ==
  IF o.type = "object" /\ \E i \in DOMAIN o.keys : o.keys[i] = key
  THEN o.values[CHOOSE i \in DOMAIN o.keys : o.keys[i] = key]
  ELSE Undefined
\* String(n) for the numbers that occur
Digits(n) ==
  CASE n = 0 -> "0" [] n = 1 -> "1" [] n = 5000 -> "5000"
    [] n = 30000 -> "30000" [] OTHER -> "9"
IsDigits(x) == x \in {"0", "1", "5000", "30000", "9"}
\* String(v)
ToText(v) ==
  CASE v.type = "string" -> v.text
    [] v.type = "null" -> <<"null">>
    [] v.type = "undefined" -> <<"undefined">>
    [] v.type = "number" -> <<Digits(v.n)>>
    [] v.type = "array" ->
         IF LengthOf(v) = 0 THEN <<>>
         ELSE IF LengthOf(v) = 1 /\ v.items[1].type = "string"
              THEN v.items[1].text ELSE <<",">>
    [] OTHER -> <<"[object Object]">>

\* --------------------------------------------------------- queryValidator.js
MAX_QUERY_LENGTH == 50000
MAX_PARAMS == 1000
MAX_PARAM_LENGTH == 10000
\* process.env: strict is NODE_ENV = production or STRICT_SQL_VALIDATION =
\* true; ALLOWED_TABLES is {} when unset; API_KEY is "" when unset
Env(strict, allowed) ==
  [strict |-> strict, ALLOWED_TABLES |-> allowed,
   BLOCKED_TABLES |-> {<<"pg_">>, <<"information_schema">>,
                       <<"_prisma_migrations">>},
   NODE_ENV |-> IF strict THEN "production" ELSE "development",
   API_KEY |-> "key"]

\* /;\s*KEYWORD\s+/i
SemicolonThen(text, keyword) ==
  \E i \in DOMAIN text :
    /\ text[i] = ";"
    /\ LET j == SkipSpaces(text, i + 1)
       IN /\ j + 1 <= Len(text)
          /\ Is(text[j], keyword)
          /\ IsSpace(text[j + 1])
DANGEROUS_PATTERNS ==
  <<"DROP", "DELETE", "TRUNCATE", "ALTER", "CREATE", "GRANT", "REVOKE",
    "INFORMATION_SCHEMA", "PG_CATALOG", "PG_TABLES", "--", "/*", "COPY",
    "\\copy", "pg_read_file", "pg_write_file", "lo_import", "lo_export">>
\* pattern.test(sql)
Test(pattern, text, from) ==
  LET stateless(found) == [found |-> found, lastIndex |-> from]
      \* /;\s*DELETE\s+FROM\s+(?!.*WHERE)/i
      DeleteWithoutWhere ==
        \E i \in DOMAIN text :
          /\ text[i] = ";"
          /\ LET j == SkipSpaces(text, i + 1)
                 k == SkipSpaces(text, j + 1)
             IN /\ k + 1 <= Len(text)
                /\ Is(text[j], "DELETE") /\ IsSpace(text[j + 1])
                /\ Is(text[k], "FROM") /\ IsSpace(text[k + 1])
                /\ \E p \in (k + 2)..SkipSpaces(text, k + 1) :
                     ~ \E w \in p..Len(text) :
                         /\ Is(text[w], "WHERE")
                         /\ \A n \in p..w : text[n] # "\n"
      \* /--\s*$/m
      CommentAtLineEnd ==
        \E i \in DOMAIN text :
          /\ text[i] = "--"
          /\ \E j \in (i + 1)..(Len(text) + 1) :
               /\ \A n \in (i + 1)..(j - 1) : IsSpace(text[n])
               /\ j > Len(text) \/ text[j] = "\n"
      \* /;\s*\\copy/i
      SemicolonBackslashCopy ==
        \E i \in DOMAIN text :
          /\ text[i] = ";"
          /\ LET j == SkipSpaces(text, i + 1)
             IN j <= Len(text) /\ Is(text[j], "\\copy")
      \* /\/\*[\s\S]*?\*\//g, the one pattern with the g flag: test() starts at
      \* lastIndex and leaves lastIndex at the end of the match, or at 0
      BlockComment ==
        LET starts == {i \in DOMAIN text :
                         /\ text[i] = "/*c*/"
                         /\ Length(SubSeq(text, 1, i - 1)) >= from}
        IN IF from > Length(text) \/ starts = {}
           THEN [found |-> FALSE, lastIndex |-> 0]
           ELSE LET i == CHOOSE i \in starts : \A k \in starts : i <= k
                IN [found |-> TRUE, lastIndex |-> Length(SubSeq(text, 1, i))]
  IN CASE pattern = "/*" -> BlockComment
       [] pattern = "DELETE" -> stateless(DeleteWithoutWhere)
       [] pattern = "--" -> stateless(CommentAtLineEnd)
       [] pattern = "\\copy" -> stateless(SemicolonBackslashCopy)
       [] pattern = "INFORMATION_SCHEMA" ->
            stateless(includes(toLowerCase(text), <<"information_schema">>))
       [] pattern = "PG_CATALOG" ->
            stateless(includes(toLowerCase(text), <<"pg_", "catalog">>))
       [] pattern = "PG_TABLES" ->
            stateless(includes(toLowerCase(text), <<"pg_", "tables">>))
       [] pattern = "pg_read_file" ->
            stateless(includes(toLowerCase(text), <<"pg_", "read_file">>))
       [] pattern = "pg_write_file" ->
            stateless(includes(toLowerCase(text), <<"pg_", "write_file">>))
       [] pattern \in {"lo_import", "lo_export"} ->
            stateless(includes(toLowerCase(text), <<pattern>>))
       [] OTHER -> stateless(SemicolonThen(text, pattern))
\* for (const pattern of DANGEROUS_PATTERNS) if (pattern.test(sql)) return
RECURSIVE TestFrom(_, _, _)
TestFrom(k, text, from) ==
  IF k > Len(DANGEROUS_PATTERNS) THEN [found |-> FALSE, lastIndex |-> from]
  ELSE LET t == Test(DANGEROUS_PATTERNS[k], text, from)
       IN IF t.found THEN t ELSE TestFrom(k + 1, text, t.lastIndex)

MULTI_STATEMENT_PATTERN(text) ==
  \E i \in DOMAIN text :
    /\ text[i] = ";"
    /\ LET j == SkipSpaces(text, i + 1)
       IN /\ j <= Len(text)
          /\ \E keyword \in {"SELECT", "INSERT", "UPDATE", "DELETE", "DROP",
                             "CREATE", "ALTER", "TRUNCATE"} :
               Is(text[j], keyword)

Valid == [valid |-> TRUE, code |-> "", error |-> "", threw |-> FALSE]
\* a refusal, or the TypeError the function throws
Invalid(code, error) ==
  [valid |-> FALSE, code |-> code, error |-> error,
   threw |-> (error = "TypeError")]

\* /(?:FROM|INTO|UPDATE|JOIN)\s+["']?(\w+)["']?/gi, exec() in a loop: the
\* captured names from index i on, in order
RECURSIVE tablePattern(_, _)
tablePattern(text, i) ==
  IF i > Len(text) THEN <<>>
  ELSE LET j == SkipSpaces(text, i + 1)
           start == IF j <= Len(text) /\ IsQuote(text[j]) THEN j + 1 ELSE j
       IN IF /\ \E keyword \in {"FROM", "INTO", "UPDATE", "JOIN"} :
                  Is(text[i], keyword)
             /\ j > i + 1
             /\ start <= Len(text)
             /\ IsWord(text[start])
          THEN LET end == WordEnd(text, start)
                   next == IF end + 1 <= Len(text) /\ IsQuote(text[end + 1])
                           THEN end + 2 ELSE end + 1
               IN <<SubSeq(text, start, end)>> \o tablePattern(text, next)
          ELSE tablePattern(text, i + 1)

validateTableAccess(text, e) ==
  LET sqlLower == toLowerCase(text)
      names == tablePattern(text, 1)
  IN IF \E blockedTable \in e.BLOCKED_TABLES : includes(sqlLower, blockedTable)
     THEN Invalid("BLOCKED_TABLE", "Access to system tables is not allowed")
     ELSE IF /\ e.ALLOWED_TABLES # {}
             /\ \E n \in DOMAIN names :
                  toLowerCase(names[n]) \notin e.ALLOWED_TABLES
          THEN Invalid("TABLE_NOT_ALLOWED", "Access to table is not allowed")
          ELSE Valid

\* validateQuery(sql, params): the verdict and the lastIndex it leaves
validateQuery(sql, params_, e, from) ==
  LET out(verdict, index) == [verdict |-> verdict, lastIndex |-> index]
      \* params with its default, the scan of DANGEROUS_PATTERNS, the length of
      \* params and the verdict of validateTableAccess, each computed once
      decide(params, scan, n, tableAccess) ==
        IF ~ Truthy(sql) \/ sql.type # "string"
        THEN out(Invalid("MISSING_SQL", "SQL query is required"), from)
        ELSE IF Length(sql.text) > MAX_QUERY_LENGTH
        THEN out(Invalid("QUERY_TOO_LONG", "Query exceeds maximum length"), from)
        ELSE IF Truthy(params) /\ n # NaN /\ n > MAX_PARAMS
        THEN out(Invalid("TOO_MANY_PARAMS", "Too many parameters"), from)
        ELSE IF scan.found
        THEN out(Invalid("DANGEROUS_QUERY",
                         "Query contains potentially dangerous operations"),
                 scan.lastIndex)
        ELSE IF e.strict /\ MULTI_STATEMENT_PATTERN(sql.text)
        THEN out(Invalid("MULTI_STATEMENT", "Multiple statements not allowed"),
                 scan.lastIndex)
        ELSE IF ~ tableAccess.valid
        THEN out(tableAccess, scan.lastIndex)
        ELSE IF params.type = "null"
        THEN out(Invalid("", "TypeError"), scan.lastIndex)
        ELSE IF /\ params.type = "array"
                /\ \E i \in DOMAIN params.items :
                     /\ params.items[i].type = "string"
                     /\ Length(params.items[i].text) > MAX_PARAM_LENGTH
        THEN out(Invalid("PARAM_TOO_LONG", "Parameter exceeds maximum length"),
                 scan.lastIndex)
        ELSE out(Valid, scan.lastIndex)
      default == IF params_.type = "undefined" THEN Arr(<<>>) ELSE params_
  IN decide(default,
            IF e.strict THEN TestFrom(1, sql.text, from)
            ELSE [found |-> FALSE, lastIndex |-> from],
            LengthOf(default),
            validateTableAccess(sql.text, e))

\* /^[a-zA-Z_][a-zA-Z0-9_]*$/
columnPattern(text) ==
  /\ text # <<>>
  /\ \A i \in DOMAIN text : IsWord(text[i])
  /\ ~ IsDigits(text[1])
\* /^[a-zA-Z_][a-zA-Z0-9_]*(\.[a-zA-Z_][a-zA-Z0-9_]*)?$/
tablePatternOk(text) ==
  \/ columnPattern(text)
  \/ \E d \in DOMAIN text :
       /\ text[d] = "."
       /\ columnPattern(SubSeq(text, 1, d - 1))
       /\ columnPattern(SubSeq(text, d + 1, Len(text)))

Sanitized(out) == [valid |-> TRUE, sanitized |-> out, error |-> ""]
Rejected(error) == [valid |-> FALSE, sanitized |-> <<>>, error |-> error]

sanitizeTableName(table, e) ==
  IF ~ Truthy(table) \/ table.type # "string"
  THEN Rejected("Table name is required")
  ELSE IF ~ tablePatternOk(table.text)
  THEN Rejected("Invalid table name format")
  ELSE IF \E blocked \in e.BLOCKED_TABLES :
            \/ startsWith(toLowerCase(table.text), blocked)
            \/ includes(toLowerCase(table.text), <<".">> \o blocked)
  THEN Rejected("Access to this table is not allowed")
  ELSE IF /\ e.ALLOWED_TABLES # {}
          /\ toLowerCase(table.text) \notin e.ALLOWED_TABLES
  THEN Rejected("Table not in allowed list")
  ELSE Sanitized(table.text)

\* sanitizeColumnNames(columns): each column quoted, "*" as it is
sanitizeColumnNames(columns) ==
  IF ~ IsArray(columns) THEN Rejected("Columns must be an array")
  ELSE LET cols == Elements(columns)
           ok(col) == col = Str(<<"*">>) \/ columnPattern(ToText(col))
       IN IF \E i \in DOMAIN cols : ~ ok(cols[i])
          THEN Rejected("Invalid column name")
          ELSE Sanitized([i \in DOMAIN cols |->
                 IF cols[i] = Str(<<"*">>) THEN <<"*">>
                 ELSE <<"\"">> \o ToText(cols[i]) \o <<"\"">>])

\* --------------------------------------------- calls of the validator itself
MaxWords == 3
MaxCalls == 2
MaxNameLength == 3

Words ==
  {<<";">>, <<"DROP">>, <<"DELETE", " ", "FROM">>, <<"WHERE">>, <<"t">>,
   <<"/*c*/">>}
RECURSIVE Join(_)
Join(words) ==
  IF Len(words) = 0 THEN <<>>
  ELSE IF Len(words) = 1 THEN words[1]
  ELSE words[1] \o <<" ">> \o Join(Tail(words))
Texts == {Join(ws) : ws \in UNION {[1..n -> Words] : n \in 0..MaxWords}}

DeleteWhere == Join(<<<<"DELETE", " ", "FROM">>, <<"t">>, <<"WHERE">>,
                      <<"t">>, <<"=">>, <<"$1">>>>)
ParamValues ==
  {Undefined, Null, Num(1), Arr(<<>>), Arr(<<Num(1)>>), Arr(<<Str(<<"x{50001}">>)>>),
   Repeat(<<Num(1)>>, MAX_PARAMS), Str(<<"t">>)}
ValidatorInputs ==
  ({Str(text) : text \in Texts} \cup {Undefined, Num(1), Str(<<"x{50001}">>)})
     \X {Undefined}
  \cup ({Str(DeleteWhere)} \X ParamValues)

ValidateQueryCall(sql, params) ==
  /\ called.count < MaxCalls
  /\ \E out \in {validateQuery(sql, params, env, lastIndex)} :
        /\ lastIndex' = out.lastIndex
        /\ called' = [fn |-> "validateQuery", sql |-> sql, params |-> params,
                    verdict |-> out.verdict, count |-> called.count + 1]
  /\ UNCHANGED <<env, handled, now, redisClient, isConnected, memoryStore,
                 redis, log, blockEnd, last, pipes, reqs, database>>

SanitizeTableNameCall(table) ==
  /\ called.count < MaxCalls
  /\ called' = [fn |-> "sanitizeTableName", table |-> table,
              verdict |-> sanitizeTableName(table, env),
              count |-> called.count + 1]
  /\ UNCHANGED <<env, lastIndex, handled, now, redisClient, isConnected,
                 memoryStore, redis, log, blockEnd, last, pipes, reqs,
                 database>>

NameLexemes == {"pg_", "my_", "t", "T", "."}
TableNames ==
  {name \in UNION {[1..n -> NameLexemes] : n \in 1..MaxNameLength} :
     tablePatternOk(name)}
SelectFrom(name) == <<"SELECT", " ", "*", " ", "FROM", " ">> \o name

\* ------------------------------------------------------------ routes/query.js
\* the size limits, each read from process.env; the configuration here is
\* MAX_BATCH_SIZE=3, MAX_TRANSACTION_SIZE=2, MAX_INSERT_ROWS=2
MAX_BATCH_SIZE == 3
MAX_TRANSACTION_SIZE == 2
MAX_INSERT_ROWS == 2
DEFAULT_TRANSACTION_TIMEOUT == 30000

\* req.body, the fields the routes read
Body(sql, params, queries, timeout, table, data, where, returning) ==
  [sql |-> sql, params |-> params, queries |-> queries, timeout |-> timeout,
   table |-> table, data |-> data, where |-> where, returning |-> returning]

\* queryValidationMiddleware, lines 243-254: validateQuery on each element
\* from the i-th on; passed is the set of sql values found valid
RECURSIVE ValidateEach(_, _, _, _)
ValidateEach(queries, i, e, from) ==
  IF i > Len(queries)
  THEN [verdict |-> Valid, lastIndex |-> from, passed |-> {}]
  ELSE IF queries[i].type \in {"null", "undefined"}
  THEN [verdict |-> Invalid("", "TypeError"), lastIndex |-> from, passed |-> {}]
  ELSE LET sql == Get(queries[i], <<"sql">>)
           then(v) ==
             IF ~ v.verdict.valid
             THEN [verdict |-> v.verdict, lastIndex |-> v.lastIndex,
                   passed |-> {}]
             ELSE [ValidateEach(queries, i + 1, e, v.lastIndex)
                     EXCEPT !.passed = @ \cup {sql}]
       IN then(validateQuery(sql, Get(queries[i], <<"params">>), e, from))

\* queryValidationMiddleware: next() is called when the verdict is valid
queryValidationMiddleware(body, e, from) ==
  LET then(single) ==
        LET one == IF Truthy(body.sql) /\ single.verdict.valid
                   THEN {body.sql} ELSE {}
            each == IF IsArray(body.queries)
                    THEN ValidateEach(Elements(body.queries), 1, e,
                                      single.lastIndex)
                    ELSE [verdict |-> Valid, lastIndex |-> single.lastIndex,
                          passed |-> {}]
        IN IF ~ single.verdict.valid
           THEN [verdict |-> single.verdict, lastIndex |-> single.lastIndex,
                 passed |-> {}]
           ELSE [each EXCEPT !.passed = @ \cup one]
  IN then(IF Truthy(body.sql)
          THEN validateQuery(body.sql, body.params, e, from)
          ELSE [verdict |-> Valid, lastIndex |-> from])

\* one statement handed to the driver: through query() (pool.query) or through
\* client.query() of a transaction; composed is TRUE when the server wrote
\* the text
Statement(via, by, sql, values, composed) ==
  [via |-> via, by |-> by, sql |-> sql, values |-> values,
   composed |-> composed]
Reply(code, executed, connections, sanitized) ==
  [code |-> code, executed |-> executed, connections |-> connections,
   sanitized |-> sanitized]
Refuse(code, sanitized) == Reply(code, <<>>, 0, sanitized)

\* q.params || []
OrEmpty(v) == IF Truthy(v) THEN v ELSE Arr(<<>>)

\* router.post("/"): fail is 0, or the statement the database fails
RawRoute(body, fail) ==
  Reply(IF fail = 1 THEN "DB_ERROR" ELSE "200",
        <<Statement("query", "route", body.sql,
                    IF body.params.type = "undefined" THEN Arr(<<>>)
                    ELSE body.params, FALSE)>>,
        1, {})

\* the loop of the batch route: the queries in list order up to the failure
RunBatch(queries, fail) ==
  LET n == Len(queries)
      ran == IF fail \in 1..n THEN fail ELSE n
  IN Reply(IF fail \in 1..n THEN "DB_ERROR" ELSE "200",
           [i \in 1..ran |->
              Statement("query", "route", Get(queries[i], <<"sql">>),
                        OrEmpty(Get(queries[i], <<"params">>)), FALSE)],
           ran, {})

BatchRoute_Truncating(body, fail) ==
  IF ~ IsArray(body.queries) \/ LengthOf(body.queries) = 0
  THEN Refuse("MISSING_QUERIES", {})
  ELSE IF LengthOf(body.queries) > MAX_BATCH_SIZE
  THEN RunBatch(SubSeq(Elements(body.queries), 1, MAX_BATCH_SIZE), fail)
  ELSE RunBatch(Elements(body.queries), fail)
\* router.post("/batch")
BatchRoute(body, fail) ==
  IF ~ IsArray(body.queries) \/ LengthOf(body.queries) = 0
  THEN Refuse("MISSING_QUERIES", {})
  ELSE IF LengthOf(body.queries) > MAX_BATCH_SIZE
  THEN Refuse("BATCH_TOO_LARGE", {})
  ELSE RunBatch(Elements(body.queries), fail)

\* `SET statement_timeout = ${timeout}`
SetStatementTimeout(timeout) ==
  <<"SET", " ", "statement_timeout", " ", "=", " ">> \o ToText(timeout)

\* transaction(callback, timeout) as the driver sees it: BEGIN, SET, the
\* callback's statements, COMMIT; ROLLBACK after the statement that fails
RunTransaction(queries, timeout, fail) ==
  LET own(text) == Statement("client.query", "transaction", Str(text),
                             Undefined, TRUE)
      all == <<own(<<"BEGIN">>), own(SetStatementTimeout(timeout))>>
             \o [i \in 1..Len(queries) |->
                   Statement("client.query", "route",
                             Get(queries[i], <<"sql">>),
                             OrEmpty(Get(queries[i], <<"params">>)), FALSE)]
             \o <<own(<<"COMMIT">>)>>
  IN IF fail \in 1..Len(all)
     THEN Reply("DB_ERROR", SubSeq(all, 1, fail) \o <<own(<<"ROLLBACK">>)>>,
                1, {})
     ELSE Reply("200", all, 1, {})

\* router.post("/transaction")
TransactionRoute(body, fail) ==
  IF ~ IsArray(body.queries) \/ LengthOf(body.queries) = 0
  THEN Refuse("MISSING_QUERIES", {})
  ELSE IF LengthOf(body.queries) > MAX_TRANSACTION_SIZE
  THEN Refuse("TRANSACTION_TOO_LARGE", {})
  ELSE RunTransaction(Elements(body.queries),
                      IF Truthy(body.timeout) THEN body.timeout
                      ELSE Num(DEFAULT_TRANSACTION_TIMEOUT),
                      fail)

\* parts.join(separator)
RECURSIVE join(_, _)
join(parts, separator) ==
  IF Len(parts) = 0 THEN <<>>
  ELSE IF Len(parts) = 1 THEN parts[1]
  ELSE parts[1] \o separator \o join(Tail(parts), separator)
\* `$${n}`
Placeholder(n) ==
  IF n \in 1..4 THEN <<"$1", "$2", "$3", "$4">>[n] ELSE "$n"
\* Object.keys(o) as an array of strings
Keys(o) == Arr([i \in DOMAIN o.keys |-> Str(o.keys[i])])
\* const { returning = ['*'] } = req.body
ReturningOf(body) ==
  IF body.returning.type = "undefined" THEN Arr(<<Str(<<"*">>)>>)
  ELSE body.returning
Outputs(validation) ==
  IF validation.valid THEN {validation.sanitized[i] :
                              i \in DOMAIN validation.sanitized}
  ELSE {}
Helper(text, values, fail, sanitized) ==
  Reply(IF fail = 1 THEN "DB_ERROR" ELSE "200",
        <<Statement("query", "route", Str(text), Arr(values), TRUE)>>,
        1, sanitized)

\* router.post("/insert")
InsertRoute(body, e, fail) ==
  LET tableValidation == sanitizeTableName(body.table, e)
      rows == IF IsArray(body.data) THEN Elements(body.data)
              ELSE <<body.data>>
      columns == rows[1].keys
      columnValidation == sanitizeColumnNames(Keys(rows[1]))
      returningValidation == sanitizeColumnNames(ReturningOf(body))
      table == {tableValidation.sanitized}
      placeholders ==
        [r \in DOMAIN rows |->
           <<"(">> \o join([c \in DOMAIN columns |->
                              <<Placeholder((r - 1) * Len(columns) + c)>>],
                           <<",", " ">>) \o <<")">>]
      values ==
        [n \in 1..(Len(rows) * Len(columns)) |->
           Get(rows[((n - 1) \div Len(columns)) + 1],
               columns[((n - 1) % Len(columns)) + 1])]
      sql == <<"\n", " ", "INSERT", " ", "INTO", " ", "\"">>
             \o tableValidation.sanitized \o <<"\"", " ", "(">>
             \o join(columnValidation.sanitized, <<",", " ">>)
             \o <<")", "\n", " ", "VALUES", " ">>
             \o join(placeholders, <<",", " ">>)
             \o <<"\n", " ", "RETURNING", " ">>
             \o join(returningValidation.sanitized, <<",", " ">>)
             \o <<"\n", " ">>
  IN IF ~ tableValidation.valid THEN Refuse("INVALID_TABLE", {})
     ELSE IF ~ Truthy(body.data) THEN Refuse("MISSING_DATA", table)
     ELSE IF Len(rows) = 0 THEN Refuse("EMPTY_DATA", table)
     ELSE IF Len(rows) > MAX_INSERT_ROWS
     THEN Refuse("INSERT_TOO_LARGE", table)
     ELSE IF rows[1].type # "object" THEN Refuse("threw", table)
     ELSE IF ~ columnValidation.valid THEN Refuse("INVALID_COLUMN", table)
     ELSE IF ~ returningValidation.valid
     THEN Refuse("INVALID_RETURNING", table \cup Outputs(columnValidation))
     ELSE IF \E r \in DOMAIN rows : rows[r].type # "object"
     THEN Refuse("threw", table \cup Outputs(columnValidation)
                            \cup Outputs(returningValidation))
     ELSE Helper(sql, values, fail,
                 table \cup Outputs(columnValidation)
                       \cup Outputs(returningValidation))

\* `${column} = $${paramIndex}` for each column, numbered from first on
Clauses(columns, first) ==
  [i \in DOMAIN columns |->
     columns[i] \o <<" ", "=", " ", Placeholder(first + i - 1)>>]
IsEmptyObject(v) == ~ Truthy(v) \/ (v.type = "object" /\ Len(v.keys) = 0)

\* router.post("/update")
UpdateRoute(body, e, fail) ==
  LET tableValidation == sanitizeTableName(body.table, e)
      dataColValidation == sanitizeColumnNames(Keys(body.data))
      whereColValidation == sanitizeColumnNames(Keys(body.where))
      returningValidation == sanitizeColumnNames(ReturningOf(body))
      table == {tableValidation.sanitized}
      sql == <<"\n", " ", "UPDATE", " ", "\"">>
             \o tableValidation.sanitized \o <<"\"", "\n", " ", "SET", " ">>
             \o join(Clauses(dataColValidation.sanitized, 1), <<",", " ">>)
             \o <<"\n", " ", "WHERE", " ">>
             \o join(Clauses(whereColValidation.sanitized,
                             Len(body.data.keys) + 1), <<" ", "AND", " ">>)
             \o <<"\n", " ", "RETURNING", " ">>
             \o join(returningValidation.sanitized, <<",", " ">>)
             \o <<"\n", " ">>
  IN IF ~ tableValidation.valid THEN Refuse("INVALID_TABLE", {})
     ELSE IF IsEmptyObject(body.data) THEN Refuse("MISSING_DATA", table)
     ELSE IF IsEmptyObject(body.where) THEN Refuse("MISSING_WHERE", table)
     ELSE IF ~ dataColValidation.valid THEN Refuse("INVALID_COLUMN", table)
     ELSE IF ~ whereColValidation.valid
     THEN Refuse("INVALID_WHERE_COLUMN", table \cup Outputs(dataColValidation))
     ELSE IF ~ returningValidation.valid
     THEN Refuse("INVALID_RETURNING", table \cup Outputs(dataColValidation)
                                            \cup Outputs(whereColValidation))
     ELSE Helper(sql, body.data.values \o body.where.values, fail,
                 table \cup Outputs(dataColValidation)
                       \cup Outputs(whereColValidation)
                       \cup Outputs(returningValidation))

\* router.post("/delete")
DeleteRoute(body, e, fail) ==
  LET tableValidation == sanitizeTableName(body.table, e)
      whereColValidation == sanitizeColumnNames(Keys(body.where))
      returningValidation == sanitizeColumnNames(ReturningOf(body))
      table == {tableValidation.sanitized}
      sql == <<"\n", " ", "DELETE", " ", "FROM", " ", "\"">>
             \o tableValidation.sanitized \o <<"\"", "\n", " ", "WHERE", " ">>
             \o join(Clauses(whereColValidation.sanitized, 1),
                     <<" ", "AND", " ">>)
             \o <<"\n", " ", "RETURNING", " ">>
             \o join(returningValidation.sanitized, <<",", " ">>)
             \o <<"\n", " ">>
  IN IF ~ tableValidation.valid THEN Refuse("INVALID_TABLE", {})
     ELSE IF IsEmptyObject(body.where) THEN Refuse("MISSING_WHERE", table)
     ELSE IF ~ whereColValidation.valid
     THEN Refuse("INVALID_WHERE_COLUMN", table)
     ELSE IF ~ returningValidation.valid
     THEN Refuse("INVALID_RETURNING", table \cup Outputs(whereColValidation))
     ELSE Helper(sql, body.where.values, fail,
                 table \cup Outputs(whereColValidation)
                       \cup Outputs(returningValidation))

Route(route, body, e, fail) ==
  CASE route = "/" -> RawRoute(body, fail)
    [] route = "/batch" -> BatchRoute(body, fail)
    [] route = "/transaction" -> TransactionRoute(body, fail)
    [] route = "/insert" -> InsertRoute(body, e, fail)
    [] route = "/update" -> UpdateRoute(body, e, fail)
    [] route = "/delete" -> DeleteRoute(body, e, fail)

\* POST /api/query<route>: the middleware of router.use, then the route
Post(route, body, fail) ==
  /\ \E checked \in {queryValidationMiddleware(body, env, lastIndex)} :
     \E reply \in {IF checked.verdict.valid THEN Route(route, body, env, fail)
                   ELSE Refuse(IF checked.verdict.threw THEN "threw"
                               ELSE checked.verdict.code, {})} :
        /\ lastIndex' = checked.lastIndex
        /\ handled' = [route |-> route, body |-> body, fail |-> fail,
                       next |-> checked.verdict.valid,
                       validated |-> checked.passed,
                       code |-> reply.code, executed |-> reply.executed,
                       connections |-> reply.connections,
                       sanitized |-> reply.sanitized]
  /\ UNCHANGED <<env, called, now, redisClient, isConnected, memoryStore,
                 redis, log, blockEnd, last, pipes, reqs, database>>

\* request bodies sent to each route
MaxFail == 2
Bodies(route) ==
  LET NoBody ==
        Body(Undefined, Undefined, Undefined, Undefined, Undefined, Undefined,
             Undefined, Undefined)
      Query(text) == Obj(<<<<"sql">>>>, <<Str(text)>>)
      Good == <<"SELECT", " ", "t">>
      DeleteAll == <<"DELETE", " ", "FROM", " ", "t">>
      Commented == <<"SELECT", " ", "/*c*/", " ", "t">>
      Stacked == <<"SELECT", " ", "t", ";", " ", "DROP", " ", "t">>
      Injection == <<"0", ";", " ", "DROP", " ", "t">>
      RawBodies ==
        {[NoBody EXCEPT !.sql = sql] :
           sql \in {Undefined, Num(1), Str(<<>>), Str(Good), Str(DeleteAll),
                    Str(Commented), Str(Stacked)}}
        \cup {[NoBody EXCEPT !.sql = Str(Good), !.params = params] :
                params \in {Null, Arr(<<Str(Injection)>>)}}
      QueryLists ==
        {Undefined, Arr(<<>>), Arr(<<Null>>), Arr(<<Query(Good)>>),
         Arr(<<Query(Good), Query(Stacked)>>), Arr(<<Query(Commented)>>),
         Arr(<<Query(Good), Query(DeleteAll)>>),
         Repeat(<<Query(Good)>>, MAX_TRANSACTION_SIZE),
         Repeat(<<Query(Good)>>, MAX_BATCH_SIZE),
         Repeat(<<Query(Stacked), Query(Good)>>, MAX_BATCH_SIZE - 1),
         Repeat(<<Null>>, MAX_BATCH_SIZE)}
      ListBodies ==
        {[NoBody EXCEPT !.queries = queries] : queries \in QueryLists}
        \cup {[NoBody EXCEPT !.queries = Arr(<<Query(Good)>>),
                             !.timeout = timeout] :
                timeout \in {Num(5000), Str(Injection)}}
      Row(keys) == Obj(keys, [i \in DOMAIN keys |-> Str(Injection)])
      BadName == <<"t", ";">>
      TableValues == {Undefined, Str(<<"t">>), Str(BadName)}
      ReturningValues == {Undefined, Arr(<<Str(BadName)>>)}
      DataValues ==
        {Undefined, Arr(<<>>), Row(<<<<"t">>>>),
         Arr(<<Row(<<<<"t">>>>), Null>>), Arr(<<Row(<<BadName>>)>>),
         Arr(<<Row(<<<<"t">>>>), Row(<<<<"t">>, BadName>>)>>),
         Repeat(<<Row(<<<<"t">>>>)>>, MAX_INSERT_ROWS)}
      WhereValues == {Obj(<<>>, <<>>), Row(<<<<"t">>>>), Row(<<BadName>>)}
  IN CASE route = "/" -> RawBodies
       [] route \in {"/batch", "/transaction"} -> ListBodies
       [] route = "/insert" ->
            {[NoBody EXCEPT !.table = table, !.data = data,
                            !.returning = returning] :
               table \in TableValues, data \in DataValues,
               returning \in ReturningValues}
       [] route = "/update" ->
            {[NoBody EXCEPT !.table = table, !.data = data, !.where = where,
                            !.returning = returning] :
               table \in {Str(<<"t">>), Str(BadName)},
               data \in {Undefined, Row(<<<<"t">>>>), Row(<<BadName>>)},
               where \in WhereValues, returning \in ReturningValues}
       [] route = "/delete" ->
            {[NoBody EXCEPT !.table = table, !.where = where,
                            !.returning = returning] :
               table \in {Str(<<"t">>), Str(BadName)},
               where \in WhereValues, returning \in ReturningValues}

\* ------------------------------------------------------- specifications
\* queryValidator.js as loaded: the table lists read from the environment, the
\* pattern's lastIndex at 0, nothing called or handled yet
InitPolicy(envs) ==
  /\ env \in envs
  /\ lastIndex = 0
  /\ called = [fn |-> "none", count |-> 0]
  /\ handled = [route |-> "none"]

InitBase ==
  /\ now = 1
  /\ memoryStore = [k \in MemKeys |-> NoRecord]
  /\ redis = [k \in RedisKeys |-> NoKey]
  /\ log = <<>>
  /\ blockEnd = [ip \in Identities |-> 0]
  /\ last = NoOp
  /\ pipes = <<>>
  /\ reqs = <<>>
  /\ InitDatabase

InitStores ==
  /\ InitBase
  /\ InitPolicy({Env(TRUE, {})})

\* One backend for the whole run: the store connected and healthy, or not
\* configured.
InitFixed ==
  /\ InitStores
  /\ redisClient \in BOOLEAN
  /\ isConnected = redisClient

NextFixed ==
  \/ Tick /\ UNCHANGED flight
  \/ RateLimit("a", "ok") /\ UNCHANGED flight

SpecFixed == InitFixed /\ [][NextFixed]_vars

\* The gateway with a configured shared store whose connection comes and goes.
\* Its clock, its number of rate checks and the block durations are bounded
\* more tightly than in the one-backend runs.
MaxDuration == 2
MaxDegradedTime == 4
MaxDegradedChecks == 3
Calls == {"ok", "lost", "late"}

Init ==
  /\ InitStores
  /\ redisClient = TRUE
  /\ isConnected = FALSE

Next ==
  \/ now < MaxDegradedTime /\ Tick /\ UNCHANGED flight
  \/ RedisConnect /\ UNCHANGED flight
  \/ RedisError /\ UNCHANGED flight
  \/ RedisClose /\ UNCHANGED flight
  \/ \E call \in Calls :
       Len(log) < MaxDegradedChecks /\ RateLimit("a", call) /\ UNCHANGED flight
  \/ \E d \in 1..MaxDuration : \E call \in Calls :
       BlockIP("a", d, call) /\ UNCHANGED flight
  \/ \E call \in Calls : CheckIPBlock("a", call) /\ UNCHANGED flight
  \/ Sweep /\ UNCHANGED flight

Spec == Init /\ [][Next]_vars

\* ------------------------------------------------- the pipeline, by command
\* Calls of checkRateLimitRedis against one connected store, from this
\* process or another: the store runs one command at a time and is free to
\* take the next from any pipeline it holds.
MaxPipelineChecks == 3
MaxPipelineTime == 3
MaxConcurrent == 2

PipelineStart(ip) ==
  /\ isRedisConnected
  /\ Len(pipes) < MaxConcurrent
  /\ Len(pipes) + Len(log) < MaxPipelineChecks
  /\ pipes' = Append(pipes, NewCall(ip, now))
  /\ UNCHANGED <<now, redisClient, isConnected, memoryStore, redis, log,
                 blockEnd, last, reqs, database, policy>>

PipelineStep(i) ==
  /\ pipes[i].pc < PipelineLength
  /\ LET step == PipelineCommand(redis, pipes[i], now)
     IN /\ redis' = step.store
        /\ pipes' = [pipes EXCEPT ![i] = step.call]
  /\ UNCHANGED <<now, redisClient, isConnected, memoryStore, log,
                 blockEnd, last, reqs, database, policy>>

\* pipeline.exec() resolves: lines 56-67, then rateLimit's lines 129-156
PipelineDone(i) ==
  /\ pipes[i].pc = PipelineLength
  /\ log' = Append(log, Response(pipes[i].ip, pipes[i].t, "redis",
                                 RedisOutcome(redis, pipes[i])))
  /\ pipes' = SubSeq(pipes, 1, i - 1) \o SubSeq(pipes, i + 1, Len(pipes))
  /\ UNCHANGED <<now, redisClient, isConnected, memoryStore, redis,
                 blockEnd, last, reqs, database, policy>>

InitConnected ==
  /\ InitStores
  /\ redisClient = TRUE
  /\ isConnected = TRUE

NextPipeline ==
  \/ now < MaxPipelineTime /\ Tick /\ UNCHANGED flight
  \/ PipelineStart("a")
  \/ \E i \in 1..Len(pipes) : PipelineStep(i)
  \/ \E i \in 1..Len(pipes) : PipelineDone(i)

SpecPipeline == InitConnected /\ [][NextPipeline]_vars

\* ------------------------------------------------------ the middleware chain
\* app.use("/api", ...) in order
Chain_RateLimitFirst ==
  <<"ipAccessControl", "rateLimit", "checkIPBlock", "requestSizeLimit",
    "apiKeyAuth", "queryRoutes">>
Chain ==
  <<"ipAccessControl", "checkIPBlock", "requestSizeLimit", "rateLimit",
    "apiKeyAuth", "queryRoutes">>

MaxRequests == 2
MaxChainTime == 2

NewRequest(ip, apiKey) ==
  [ip |-> ip, apiKey |-> apiKey, pos |-> 1, response |-> "",
   charged |-> FALSE, executed |-> FALSE]
\* the middleware request r waits for, "" when it has its response or has
\* passed the whole chain
Pending(r) ==
  IF reqs[r].response = "" /\ reqs[r].pos <= Len(Chain)
  THEN Chain[reqs[r].pos] ELSE ""
Passed(r) == [reqs EXCEPT ![r].pos = @ + 1]
Responded(r, code) == [reqs EXCEPT ![r].response = code]

\* a request of identity ip whose X-API-Key header is apiKey: "" when it
\* sends none, "?" when the header is left open until apiKeyAuth reads it
Arrive(ip, apiKey) ==
  /\ Len(reqs) < MaxRequests
  /\ reqs' = Append(reqs, NewRequest(ip, apiKey))
  /\ UNCHANGED <<now, redisClient, isConnected, memoryStore, redis, log,
                 blockEnd, last, pipes, database, policy>>

\* ipAccessControl with the static lists left empty (IP_BLOCKLIST and
\* IP_ALLOWLIST unset): sets req.clientIP and calls next()
RunIpAccessControl(r) ==
  /\ Pending(r) = "ipAccessControl"
  /\ reqs' = Passed(r)
  /\ UNCHANGED <<now, redisClient, isConnected, memoryStore, redis, log,
                 blockEnd, last, pipes, database, policy>>

RunCheckIPBlock(r, call) ==
  /\ Pending(r) = "checkIPBlock"
  /\ CheckIPBlock(reqs[r].ip, call)
  /\ reqs' = IF last'.status = "403" THEN Responded(r, "IP_TEMPORARILY_BLOCKED")
             ELSE IF last'.status = "threw" THEN Responded(r, "threw")
             ELSE Passed(r)
  /\ UNCHANGED <<pipes, database, policy>>

RunRequestSizeLimit(r, tooLarge) ==
  /\ Pending(r) = "requestSizeLimit"
  /\ reqs' = IF tooLarge THEN Responded(r, "PAYLOAD_TOO_LARGE") ELSE Passed(r)
  /\ UNCHANGED <<now, redisClient, isConnected, memoryStore, redis, log,
                 blockEnd, last, pipes, database, policy>>

RunRateLimit(r, call) ==
  /\ Pending(r) = "rateLimit"
  /\ RateLimit(reqs[r].ip, call)
  /\ reqs' = IF log'[Len(log')].allowed
             THEN [Passed(r) EXCEPT ![r].charged = TRUE]
             ELSE [Responded(r, "RATE_LIMITED") EXCEPT ![r].charged = TRUE]
  /\ UNCHANGED <<pipes, database, policy>>

\* apiKeyAuth(req, res, next): the code of its response, "" when it calls
\* next()
apiKeyAuth_LengthOnly(apiKey, e) ==
  IF e.API_KEY = ""
  THEN IF e.NODE_ENV = "production" THEN "CONFIG_ERROR" ELSE ""
  ELSE IF apiKey = "" THEN "MISSING_API_KEY"
  ELSE IF Len(apiKey) # Len(e.API_KEY) THEN "INVALID_API_KEY"
  ELSE ""
apiKeyAuth(apiKey, e) ==
  LET constantTimeEqual(a, b) ==
        IF Len(a) # Len(b) THEN FALSE
        ELSE \A i \in 1..Len(a) : SubSeq(a, i, i) = SubSeq(b, i, i)
  IN IF e.API_KEY = ""
     THEN IF e.NODE_ENV = "production" THEN "CONFIG_ERROR" ELSE ""
     ELSE IF apiKey = "" THEN "MISSING_API_KEY"
     ELSE IF ~ constantTimeEqual(apiKey, e.API_KEY) THEN "INVALID_API_KEY"
     ELSE ""

RunApiKeyAuth(r, apiKey) ==
  /\ Pending(r) = "apiKeyAuth"
  /\ reqs[r].apiKey \in {"?", apiKey}
  /\ reqs' = [(IF apiKeyAuth(apiKey, env) = "" THEN Passed(r)
               ELSE Responded(r, apiKeyAuth(apiKey, env)))
               EXCEPT ![r].apiKey = apiKey]
  /\ UNCHANGED <<now, redisClient, isConnected, memoryStore, redis, log,
                 blockEnd, last, pipes, database, policy>>

\* app.use("/api/query", queryRoutes): the validation middleware of the
\* router, then the route, which executes the request's queries
RunQueryRoutes(r, valid) ==
  /\ Pending(r) = "queryRoutes"
  /\ reqs' = IF valid THEN [Passed(r) EXCEPT ![r].executed = TRUE]
             ELSE Responded(r, "VALIDATION")
  /\ UNCHANGED <<now, redisClient, isConnected, memoryStore, redis, log,
                 blockEnd, last, pipes, database, policy>>

NextChain ==
  \/ now < MaxChainTime /\ Tick /\ UNCHANGED flight
  \/ \E d \in 1..MaxDuration : BlockIP("a", d, "ok") /\ UNCHANGED flight
  \/ Arrive("a", "?")
  \/ \E r \in 1..Len(reqs) : RunIpAccessControl(r)
  \/ \E r \in 1..Len(reqs) : \E call \in {"ok", "lost"} : RunCheckIPBlock(r, call)
  \/ \E r \in 1..Len(reqs) : \E tooLarge \in BOOLEAN : RunRequestSizeLimit(r, tooLarge)
  \/ \E r \in 1..Len(reqs) : \E call \in Calls : RunRateLimit(r, call)
  \/ \E r \in 1..Len(reqs) : \E apiKey \in {"key", "kez"} :
       RunApiKeyAuth(r, apiKey)
  \/ \E r \in 1..Len(reqs) : \E valid \in BOOLEAN : RunQueryRoutes(r, valid)

SpecChain == InitFixed /\ [][NextChain]_vars

\* ------------------------------------------------------ the API-key check
\* The chain on the local store under every configuration of API_KEY and
\* NODE_ENV, for requests that send no key, the key, a key of the same length
\* and a shorter one.
InitAuth ==
  /\ InitBase
  /\ redisClient = FALSE
  /\ isConnected = FALSE
  /\ InitPolicy({[Env(TRUE, {}) EXCEPT !.API_KEY = key, !.NODE_ENV = mode] :
                   key \in {"", "key"},
                   mode \in {"production", "development"}})

NextAuth ==
  \/ \E d \in 1..MaxDuration : BlockIP("a", d, "ok") /\ UNCHANGED flight
  \/ \E apiKey \in {"", "key", "kez", "k"} : Arrive("a", apiKey)
  \/ \E r \in 1..Len(reqs) : RunIpAccessControl(r)
  \/ \E r \in 1..Len(reqs) : RunCheckIPBlock(r, "ok")
  \/ \E r \in 1..Len(reqs) : \E tooLarge \in BOOLEAN :
       RunRequestSizeLimit(r, tooLarge)
  \/ \E r \in 1..Len(reqs) : RunRateLimit(r, "ok")
  \/ \E r \in 1..Len(reqs) : RunApiKeyAuth(r, reqs[r].apiKey)
  \/ \E r \in 1..Len(reqs) : \E valid \in BOOLEAN : RunQueryRoutes(r, valid)

SpecAuth == InitAuth /\ [][NextAuth]_vars

\* ------------------------------------------ the local store's key namespace
\* The local store alone (no shared store configured), with an identity
\* whose text is another identity's block key: clientIP is the first
\* X-Forwarded-For entry as sent.
MaxKeysTime == 3
MaxKeysChecks == 3

InitLocal ==
  /\ InitStores
  /\ redisClient = FALSE
  /\ isConnected = FALSE

NextKeys ==
  \/ now < MaxKeysTime /\ Tick /\ UNCHANGED flight
  \/ \E ip \in Identities :
       Len(log) < MaxKeysChecks /\ RateLimit(ip, "ok") /\ UNCHANGED flight
  \/ \E d \in 1..MaxDuration : BlockIP("a", d, "ok") /\ UNCHANGED flight
  \/ CheckIPBlock("a", "ok") /\ UNCHANGED flight
  \/ Sweep /\ UNCHANGED flight

SpecKeys == InitLocal /\ [][NextKeys]_vars

\* ------------------------------------------------------ the periodic sweep
\* The local store over a run long enough for rate records to go stale
\* (twice the window) while the sweep runs between checks and blocks.
MaxSweepChecks == 1

NextSweep ==
  \/ Tick /\ UNCHANGED flight
  \/ \E ip \in Identities :
       Len(log) < MaxSweepChecks /\ RateLimit(ip, "ok") /\ UNCHANGED flight
  \/ \E d \in 1..MaxDuration : BlockIP("a", d, "ok") /\ UNCHANGED flight
  \/ CheckIPBlock("a", "ok") /\ UNCHANGED flight
  \/ Sweep /\ UNCHANGED flight

SpecSweep == InitLocal /\ [][NextSweep]_vars

\* ------------------------------------------------- the database side alone
\* Callers of getClient() that release any number of times, or never.
NextPool ==
  \/ \E h \in Holders : CallerAcquire(h)
  \/ \E h \in Holders : CallerRelease(h)
  \/ \E h \in Holders : ReleaseTimeoutFires(h)
  \/ \E c \in Conns : ConnectionLost(c)
  \/ \E c \in Conns : IdleTimeout(c)
  \/ DbTick

SpecPool == InitLocal /\ [][NextPool]_vars

\* One request to POST /api/query/transaction, over a pool that another
\* caller of getClient() uses too.
NextTransaction ==
  \/ \E queries \in StatementLists : \E timeout \in Timeouts :
       StartTransaction(1, queries, timeout)
  \/ TxGetClient(1)
  \/ TxConnectTimeout(1)
  \/ \E outcome \in {"ok", "error", "timeout"} : TxQuery(1, outcome)
  \/ TxRelease(1)
  \/ CallerAcquire(2)
  \/ CallerRelease(2)
  \/ \E h \in Holders : ReleaseTimeoutFires(h)
  \/ \E c \in Conns : ConnectionLost(c)
  \/ \E c \in Conns : IdleTimeout(c)
  \/ DbTick

SpecTransaction == InitLocal /\ [][NextTransaction]_vars

\* One request to POST /api/query/transaction whose client can disconnect
\* at any moment, over a pool whose connection another caller of getClient()
\* may hold until the leak timer takes it back. Every call
\* transaction() awaits returns or fails: pool.connect() gives a client or
\* rejects after connectionTimeoutMillis, a query resolves or rejects, and
\* the release of the finally block runs.
NextCleanup ==
  \/ \E queries \in StatementLists :
       StartTransaction(1, queries, DB_STATEMENT_TIMEOUT)
  \/ ClientDisconnect(1)
  \/ TxGetClient(1)
  \/ TxConnectTimeout(1)
  \/ \E outcome \in {"ok", "error", "timeout"} : TxQuery(1, outcome)
  \/ TxRelease(1)
  \/ CallerAcquire(2)
  \/ \E h \in Holders : ReleaseTimeoutFires(h)
  \/ \E c \in Conns : ConnectionLost(c)
  \/ DbTick

SpecCleanup ==
  /\ InitLocal
  /\ [][NextCleanup]_vars
  /\ WF_vars(TxGetClient(1) \/ TxConnectTimeout(1))
  /\ WF_vars(\E outcome \in {"ok", "error", "timeout"} : TxQuery(1, outcome))
  /\ WF_vars(TxRelease(1))

\* One request to POST /api/query/batch, over a pool that another caller of
\* getClient() uses too.
NextBatch ==
  \/ \E queries \in BatchLists : StartBatch(1, queries)
  \/ \E outcome \in {"ok", "error", "late"} : BatchQuery(1, outcome)
  \/ BatchConnectTimeout(1)
  \/ CallerAcquire(2)
  \/ CallerRelease(2)
  \/ \E c \in Conns : ConnectionLost(c)
  \/ \E c \in Conns : IdleTimeout(c)

SpecBatch == InitLocal /\ [][NextBatch]_vars

\* ------------------------------------------------- rate checks by identity
\* Both backends, with the rate checks of every identity interleaved; an
\* identity is the first X-Forwarded-For entry as sent.
MaxIdentityChecks == 3
MaxIdentityTime == 3

NextIdentities ==
  \/ now < MaxIdentityTime /\ Tick /\ UNCHANGED flight
  \/ \E ip \in Identities :
       Len(log) < MaxIdentityChecks /\ RateLimit(ip, "ok") /\ UNCHANGED flight

SpecIdentities == InitFixed /\ [][NextIdentities]_vars

\* the validator called directly, any texts in any order
InitValidator ==
  /\ InitBase
  /\ redisClient = FALSE
  /\ isConnected = FALSE
  /\ InitPolicy({Env(strict, {}) : strict \in BOOLEAN})

NextValidator ==
  \E input \in ValidatorInputs : ValidateQueryCall(input[1], input[2])

SpecValidator == InitValidator /\ [][NextValidator]_vars

\* the validator and the sanitizer on the same table names, under every
\* table-list configuration
InitTables ==
  /\ InitBase
  /\ redisClient = FALSE
  /\ isConnected = FALSE
  /\ InitPolicy({Env(strict, allowed) :
                   strict \in BOOLEAN,
                   allowed \in {{}, {<<"t">>}, {<<"my_">>},
                                {<<"my_", ".", "t">>}}})

NextTables ==
  \/ \E name \in TableNames :
       ValidateQueryCall(Str(SelectFrom(name)), Undefined)
  \/ \E name \in TableNames : SanitizeTableNameCall(Str(name))

SpecTables == InitTables /\ [][NextTables]_vars

\* the query routes behind their validation middleware, one request after
\* another
InitRoutes ==
  /\ InitBase
  /\ redisClient = FALSE
  /\ isConnected = FALSE
  /\ InitPolicy({Env(strict, {}) : strict \in BOOLEAN})

NextRoutes ==
  \/ \E body \in Bodies("/"), fail \in 0..1 : Post("/", body, fail)
  \/ \E body \in Bodies("/batch"), fail \in 0..MaxFail :
       Post("/batch", body, fail)
  \/ \E body \in Bodies("/transaction"), fail \in 0..MaxFail :
       Post("/transaction", body, fail)
  \/ \E body \in Bodies("/insert") : Post("/insert", body, 0)
  \/ \E body \in Bodies("/update") : Post("/update", body, 0)
  \/ \E body \in Bodies("/delete") : Post("/delete", body, 0)

SpecRoutes == InitRoutes /\ [][NextRoutes]_vars

\* ------------------------------------------------------ reading the history
SameIp(i, k) == log[k].ip = log[i].ip
\* the checks of log[i]'s identity among positions lo..hi
ChecksOf(i, lo, hi) == {k \in lo..hi : SameIp(i, k)}
\* check i opens a window: the identity made no check in the windowDuration
\* before it (or none at all)
Fresh(i) ==
  \A k \in ChecksOf(i, 1, i - 1) : log[k].t + RATE_LIMIT_WINDOW_MS < log[i].t
\* check j lies in the window that check i opened
InWindowOf(i, j) ==
  /\ i <= j
  /\ SameIp(i, j)
  /\ log[j].t < log[i].t + RATE_LIMIT_WINDOW_MS
\* the identity's check before j, 0 when there is none
PrevCheck(j) ==
  IF ChecksOf(j, 1, j - 1) = {} THEN 0
  ELSE CHOOSE k \in ChecksOf(j, 1, j - 1) : \A m \in ChecksOf(j, 1, j - 1) : m <= k

\* The history only grows and its entries never change, so a statement about
\* every check is read, in each state, on the newest one.
Newest == Len(log)

\* the N+1-th and later checks inside the window opened by a check are denied
DeniedBeyondQuota ==
  \A i \in 1..Newest :
    (/\ Fresh(i)
     /\ InWindowOf(i, Newest)
     /\ Cardinality(ChecksOf(i, i, Newest - 1)) >= RATE_LIMIT_MAX_REQUESTS)
    => ~log[Newest].allowed

\* the window opened by check i was used up before check j: its first N
\* checks, none of them burst-limited, and at least one more inside it
QuotaUsedBefore(i, j) ==
  LET inWindow == {k \in ChecksOf(i, i, j - 1) : InWindowOf(i, k)}
      firstN == {k \in inWindow :
                   Cardinality({m \in inWindow : m < k}) < RATE_LIMIT_MAX_REQUESTS}
  IN /\ Fresh(i)
     /\ Cardinality(inWindow) >= RATE_LIMIT_MAX_REQUESTS + 1
     /\ \A k \in firstN : log[k].allowed /\ ~log[k].isBurst

\* C1 as stated: once the window that held the N checks (the windowDuration
\* that began with the first of them) has fully elapsed, the identity's next
\* check is allowed.
C1_AllowedAfterFirstCheckWindow ==
  /\ DeniedBeyondQuota
  /\ \A i \in 1..Newest :
       (/\ QuotaUsedBefore(i, Newest)
        /\ SameIp(i, Newest)
        /\ log[Newest].t > log[i].t + RATE_LIMIT_WINDOW_MS
        /\ log[PrevCheck(Newest)].t <= log[i].t + RATE_LIMIT_WINDOW_MS)
       => log[Newest].allowed

\* What both variants do give: after N checks inside the window opened by a
\* check, every further check inside that window is denied, and a check made
\* more than windowDuration after the identity's previous check (so that
\* every earlier check, the denied one included, has left the window) is
\* allowed.
DeniedInWindowAllowedAfterQuiet ==
  /\ DeniedBeyondQuota
  /\ (/\ Newest > 0
      /\ PrevCheck(Newest) # 0
      /\ log[Newest].t > log[PrevCheck(Newest)].t + RATE_LIMIT_WINDOW_MS)
     => log[Newest].allowed

\* N allowed checks in a fresh window, the next one in the window denied on
\* the sustained limit alone, and a later check after a quiet windowDuration
\* allowed, in the shared-store variant
QuietPeriodReached ==
  \E i \in 1..Len(log) : \E j \in i..Len(log) :
    /\ Fresh(i)
    /\ log[i].backend = "redis"
    /\ j = i + RATE_LIMIT_MAX_REQUESTS + 1
    /\ \A k \in i..(j - 2) : InWindowOf(i, k) /\ log[k].allowed
    /\ InWindowOf(i, j - 1) /\ ~log[j - 1].allowed /\ ~log[j - 1].isBurst
    /\ log[j].t > log[j - 1].t + RATE_LIMIT_WINDOW_MS
    /\ log[j].allowed

\* allowed checks of log[i]'s identity inside the half-open span of the given
\* length that starts at the time of check i
AllowedInSpan(i, length) ==
  {k \in ChecksOf(i, 1, Len(log)) :
     /\ log[k].allowed
     /\ log[i].t <= log[k].t
     /\ log[k].t < log[i].t + length}

\* C2: in any span of 1000 ms at most maxBurst checks of one identity are
\* allowed, whatever the sustained count
C2_BurstCapInAnySecond ==
  \A i \in 1..Len(log) : Cardinality(AllowedInSpan(i, SECOND)) <= RATE_LIMIT_BURST

\* C3: in any interval of length windowDuration at most maxSustained checks
\* of one identity are allowed (sliding window)
C3_SlidingWindowCap ==
  \A i \in 1..Len(log) :
    Cardinality(AllowedInSpan(i, RATE_LIMIT_WINDOW_MS)) <= RATE_LIMIT_MAX_REQUESTS

\* C10: every decision carries remaining and resetAt; a rejection's
\* retry-after is 1 s when the burst limit tripped and otherwise the time
\* until the oldest counted request leaves the sustained window
C10_RetryAfterIsTimeRemaining ==
  \A i \in 1..Len(log) :
    /\ log[i].remaining # NaN
    /\ log[i].resetAt # NaN
    /\ ~log[i].allowed =>
         log[i].retryAfter =
           IF log[i].isBurst THEN 1
           ELSE CeilSeconds(log[i].oldest + RATE_LIMIT_WINDOW_MS - log[i].t)

\* C5: across both backends together, the allowed checks of one identity
\* stay within maxSustained per window and maxBurst per second
C5_CapsAcrossBackends ==
  \A i \in 1..Len(log) :
    /\ Cardinality(AllowedInSpan(i, SECOND)) <= RATE_LIMIT_BURST
    /\ Cardinality(AllowedInSpan(i, RATE_LIMIT_WINDOW_MS)) <= RATE_LIMIT_MAX_REQUESTS

\* C6: no block operation ends in a rejection (rateLimit always appends its
\* decision to the history)
C6_NoOperationThrows == last.status # "threw"

\* C7: a check of the identity's block answers blocked exactly while the
\* latest completed block is running
C7_BlockSeenUntilExpiry ==
  (last.op = "checkIPBlock" /\ last.status # "threw") =>
    (last.status = "403" <=> last.due)

\* C4: however the store interleaves the commands of concurrent checks of one
\* identity against the shared store, the allowed ones stay within maxBurst
\* per second and maxSustained per window
C4_NoRacePastLimit ==
  \A i \in 1..Len(log) :
    log[i].backend = "redis" =>
      /\ Cardinality(AllowedInSpan(i, SECOND)) <= RATE_LIMIT_BURST
      /\ Cardinality(AllowedInSpan(i, RATE_LIMIT_WINDOW_MS)) <= RATE_LIMIT_MAX_REQUESTS

\* the rate counters of an identity, in both stores
Counters(ip) == <<memoryStore[ip], redis[RateKey(ip)], redis[BurstKey(ip)]>>

\* C8: a request that checkIPBlock rejects was never given to rateLimit, and
\* the step that rejects it leaves its identity's counters, in both stores,
\* and the history of rate checks as they were
C8_BlockedRequestNotCharged ==
  /\ [](\A r \in 1..Len(reqs) :
         reqs[r].response = "IP_TEMPORARILY_BLOCKED" => ~reqs[r].charged)
  /\ [][\A r \in 1..Len(reqs) :
         (reqs[r].response = "" /\ reqs'[r].response = "IP_TEMPORARILY_BLOCKED")
         => (Counters(reqs[r].ip)' = Counters(reqs[r].ip) /\ log' = log)]_vars

\* a request rejected as blocked while its identity has live counters from an
\* earlier request that was charged
C8_Witness ==
  \E r \in 1..Len(reqs) : \E q \in 1..Len(reqs) :
    /\ reqs[r].response = "IP_TEMPORARILY_BLOCKED"
    /\ reqs[q].ip = reqs[r].ip
    /\ reqs[q].charged
    /\ (memoryStore[reqs[r].ip].present \/ redis[RateKey(reqs[r].ip)].type = "zset")

\* a record of the local store that is a rate record / a block entry
IsRateRecord(record) == record.present /\ record.windowStart # NaN
IsBlockEntry(record) == record.present /\ record.blockedUntil # NaN

\* C9: in the local store, blockIP(X), isIPBlocked(X) and the sweep's purge
\* of block keys leave the rate record of every identity Y as it was, and a
\* rate check for Y leaves the block entry of every X as it was
C9_BlockingIndependentOfRateRecords ==
  [][/\ ((\E d \in 1..MaxDuration : BlockIP("a", d, "ok")) \/ CheckIPBlock("a", "ok"))
        => \A y \in Identities :
             IsRateRecord(memoryStore[y]) => memoryStore'[y] = memoryStore[y]
     /\ Sweep
        => \A y \in Identities :
             (IsRateRecord(memoryStore[y]) /\ StartsWithBlocked(y))
               => memoryStore'[y] = memoryStore[y]
     /\ (\E y \in Identities : RateLimit(y, "ok"))
        => \A x \in Identities :
             IsBlockEntry(memoryStore[BlockedKey(x)])
               => memoryStore'[BlockedKey(x)].blockedUntil
                    = memoryStore[BlockedKey(x)].blockedUntil]_vars


\* C11: a check denied with retry-after r, followed by no other check of the
\* identity, is followed by an allowed check when the identity retries
\* exactly r seconds later
C11_AllowedAfterRetryAfter ==
  (/\ Newest > 0
   /\ PrevCheck(Newest) # 0
   /\ ~log[PrevCheck(Newest)].allowed
   /\ log[Newest].t
        = log[PrevCheck(Newest)].t + log[PrevCheck(Newest)].retryAfter * SECOND)
  => log[Newest].allowed

\* C12: a run of the sweep leaves in place every rate record whose sustained
\* window is still active and every block entry that has not expired
C12_SweepRemovesOnlyExpired ==
  [][Sweep =>
       \A k \in MemKeys :
         /\ (/\ IsRateRecord(memoryStore[k])
             /\ Le(Sub(now, memoryStore[k].windowStart), RATE_LIMIT_WINDOW_MS))
            => memoryStore'[k] = memoryStore[k]
         /\ (/\ IsBlockEntry(memoryStore[k])
             /\ Gt(memoryStore[k].blockedUntil, now))
            => memoryStore'[k] = memoryStore[k]]_vars

\* the sweep has purged the stale rate record of an identity that was
\* checked, in a run where a block made at an earlier time is still running
C12_Witness ==
  /\ \E i \in 1..Len(log) : log[i].ip = "a" /\ log[i].backend = "memory"
  /\ ~memoryStore["a"].present
  /\ last.op = "blockIP" /\ last.t < now
  /\ IsBlockEntry(memoryStore[BlockedKey("a")])
  /\ Gt(memoryStore[BlockedKey("a")].blockedUntil, now)


\* the effects the data statements of holder h's request would have
Writes(h) ==
  {Effect(h, i) : i \in {k \in 1..Len(runs[h].queries) : runs[h].queries[k] = "write"}}

\* C13: when transaction() has completed, the effects of all the request's
\* statements are persisted or none is
C13_AllOrNothing ==
  (runs[1].kind = "transaction" /\ runs[1].pc = "done")
    => (Writes(1) \subseteq committed \/ Writes(1) \cap committed = {})


\* the holders whose client is acquired and not released
Leased == {h \in Holders : Held(h)}

\* C14: when a step of transaction() has failed, a ROLLBACK was issued on
\* the transaction's connection and the error that reaches the caller is the
\* failure of that step, also when the ROLLBACK failed
C14_RollbackThenOriginalError ==
  (runs[1].pc = "done" /\ runs[1].error # NoError)
    => /\ \E k \in 1..Len(runs[1].issued) :
            /\ runs[1].issued[k].command = "ROLLBACK"
            /\ runs[1].issued[k].conn = leases[1].conn
       /\ runs[1].thrown = runs[1].error

\* C15: once transaction() has returned or thrown, the client it took from
\* getClient() is released, and no connection of the pool is leased without
\* a holder
C15_ReleasedOnEveryPath ==
  /\ (runs[1].kind = "transaction" /\ runs[1].pc = "done") => ~Held(1)
  /\ \A c \in Conns :
       pool[c].leased => \E h \in Leased : leases[h].conn = c

\* transaction() has thrown the failure of its ROLLBACK and its client is
\* released
C15_Witness ==
  /\ runs[1].pc = "done"
  /\ runs[1].thrown = Failure("ROLLBACK", 0)
  /\ leases[1].released
  /\ leases[1].poolReleases = 1

\* C18: every command a transaction issues goes to a client whose lease
\* the transaction still holds
C18_NoCommandAfterRelease ==
  \A k \in 1..Len(runs[1].issued) : runs[1].issued[k].held

\* C19: activeConnections is the number of clients acquired and not yet
\* released, and is after a transaction (no other caller at work) what it
\* was before it
C19_ActiveIsLeasedCount ==
  /\ activeConnections = Cardinality(Leased)
  /\ (runs[1].kind = "transaction" /\ runs[1].pc = "done"
        /\ runs[2].kind = "none")
       => activeConnections = runs[1].before

\* C16: a call of release on a client that is already released changes
\* nothing in the pool or the lease, and no call of release throws
C16_ReleaseIdempotent ==
  /\ [](\A h \in Holders : ~leases[h].threw)
  /\ [][\A h \in Holders :
         (CallerRelease(h) /\ leases[h].released)
           => /\ pool' = pool
              /\ activeConnections' = activeConnections
              /\ leases' = leases]_vars

\* a caller has called release twice on a client that the first call, or
\* the timer, had released
C16_Witness ==
  \E h \in Holders :
    /\ runs[h].calls = MaxReleaseCalls
    /\ leases[h].released
    /\ leases[h].poolReleases = 1

\* C17: a client that is not released is reclaimed when the release
\* timeout has run, not before, with exactly one diagnostic, and leaves no
\* connection leased without a holder; a client released in time is not
\* reclaimed and has no diagnostic
C17_LeakReclaimedOnce ==
  \A h \in Holders :
    /\ leases[h].releaseTimeout = "pending" => leases[h].age <= RELEASE_TIMEOUT
    /\ leases[h].releaseTimeout = "fired"
         => /\ leases[h].age = RELEASE_TIMEOUT
            /\ leases[h].diagnostics = 1
            /\ ~Held(h)
            /\ \A c \in Conns :
                 pool[c].leased => \E g \in Leased : leases[g].conn = c
    /\ leases[h].releaseTimeout = "cleared"
         => leases[h].diagnostics = 0 /\ leases[h].poolReleases = 1
    /\ leases[h].diagnostics <= 1

\* a leaked client was reclaimed and the other caller then got a client from
\* the pool of the same size
C17_Witness ==
  /\ leases[1].releaseTimeout = "fired"
  /\ leases[1].diagnostics = 1
  /\ runs[1].calls = 0
  /\ Held(2)


\* the position of the request that failed, 0 when none did
FailedAt(h) == runs[h].thrown.index

\* C20: a batch runs its requests in list order; when request i fails the
\* later ones are never run, the effects of the earlier ones are persisted,
\* and the caller receives the error of request i
C20_BatchSequentialNonAtomic ==
  /\ \A k \in 1..Len(runs[1].issued) :
       /\ runs[1].issued[k].index = k
       /\ runs[1].issued[k].command = runs[1].queries[k]
  /\ (runs[1].kind = "batch" /\ runs[1].pc = "done" /\ FailedAt(1) # 0)
       => /\ Len(runs[1].issued) <= FailedAt(1)
          /\ runs[1].thrown = Failure("statement", FailedAt(1))
          /\ \A j \in 1..(FailedAt(1) - 1) :
               runs[1].queries[j] = "write" => Effect(1, j) \in committed

\* the request handled last executed nothing and took no connection
NothingExecuted == handled.executed = <<>> /\ handled.connections = 0
BatchTooLarge ==
  /\ handled.route = "/batch"
  /\ IsArray(handled.body.queries)
  /\ LengthOf(handled.body.queries) > MAX_BATCH_SIZE
TransactionEmpty ==
  /\ handled.route = "/transaction"
  /\ IsArray(handled.body.queries)
  /\ LengthOf(handled.body.queries) = 0
TransactionTooLarge ==
  /\ handled.route = "/transaction"
  /\ IsArray(handled.body.queries)
  /\ LengthOf(handled.body.queries) > MAX_TRANSACTION_SIZE
InsertTooLarge ==
  /\ handled.route = "/insert"
  /\ IsArray(handled.body.data)
  /\ LengthOf(handled.body.data) > MAX_INSERT_ROWS

\* C21 as stated: an oversized batch, an empty or oversized transaction and
\* an oversized insert are each rejected with their own code, with no query
\* executed and no connection taken.
C21_SizeLimitsOwnCode ==
  handled.route # "none" =>
    /\ BatchTooLarge => handled.code = "BATCH_TOO_LARGE" /\ NothingExecuted
    /\ TransactionEmpty => handled.code = "MISSING_QUERIES" /\ NothingExecuted
    /\ TransactionTooLarge =>
         handled.code = "TRANSACTION_TOO_LARGE" /\ NothingExecuted
    /\ InsertTooLarge => handled.code = "INSERT_TOO_LARGE" /\ NothingExecuted

\* C21, amended: such a request executes no query and takes no connection,
\* and it is answered with its own size code whenever the checks that run
\* before the size check let it through (the validation middleware, and the
\* table-name check of the insert route).
C21_SizeLimitsBeforeExecution ==
  handled.route # "none" =>
    /\ BatchTooLarge =>
         /\ NothingExecuted
         /\ handled.next => handled.code = "BATCH_TOO_LARGE"
    /\ TransactionEmpty =>
         /\ NothingExecuted
         /\ handled.next => handled.code = "MISSING_QUERIES"
    /\ TransactionTooLarge =>
         /\ NothingExecuted
         /\ handled.next => handled.code = "TRANSACTION_TOO_LARGE"
    /\ InsertTooLarge =>
         /\ NothingExecuted
         /\ (handled.next /\ sanitizeTableName(handled.body.table, env).valid)
              => handled.code = "INSERT_TOO_LARGE"

C21_Witness ==
  /\ handled.route # "none"
  /\ BatchTooLarge
  /\ handled.code = "BATCH_TOO_LARGE"

\* the queries of a raw, batch or transaction request, as (sql, params)
QueriesOf(h) ==
  IF h.route = "/" THEN {<<h.body.sql, h.body.params>>}
  ELSE IF IsArray(h.body.queries)
       THEN {<<Get(q, <<"sql">>), Get(q, <<"params">>)>> :
               q \in {Elements(h.body.queries)[i] :
                        i \in DOMAIN Elements(h.body.queries)}}
       ELSE {}

\* C22: when a query of a raw, batch or transaction request fails
\* validateQuery, no query of the request is executed and no connection is
\* taken.
C22_RejectedNeverReachesDatabase ==
  handled.route \in {"/", "/batch", "/transaction"} =>
    ((\E q \in QueriesOf(handled) :
        ~ validateQuery(q[1], q[2], env, 0).verdict.valid)
       => NothingExecuted)

\* C23: in strict mode every SQL text a route passes to query() or to
\* client.query() was passed to validateQuery before and found valid.
C23_ExecutedWasValidated ==
  (handled.route # "none" /\ env.strict) =>
    \A i \in DOMAIN handled.executed :
      handled.executed[i].by = "route"
        => handled.executed[i].sql \in handled.validated

\* the texts between double quotes from index i on, and the lexemes outside
RECURSIVE QuotedParts(_, _)
QuotedParts(text, i) ==
  IF i > Len(text) THEN {}
  ELSE IF text[i] = "\""
  THEN LET closing == {j \in (i + 1)..Len(text) : text[j] = "\""}
           j == IF closing = {} THEN Len(text) + 1
                ELSE CHOOSE j \in closing : \A k \in closing : j <= k
       IN {SubSeq(text, i + 1, j - 1)} \cup QuotedParts(text, j + 1)
  ELSE QuotedParts(text, i + 1)
RECURSIVE Unquoted(_, _)
Unquoted(text, i) ==
  IF i > Len(text) THEN {}
  ELSE IF text[i] = "\""
  THEN LET closing == {j \in (i + 1)..Len(text) : text[j] = "\""}
           j == IF closing = {} THEN Len(text) + 1
                ELSE CHOOSE j \in closing : \A k \in closing : j <= k
       IN Unquoted(text, j + 1)
  ELSE {text[i]} \cup Unquoted(text, i + 1)
SqlVocabulary ==
  {"INSERT", "INTO", "VALUES", "RETURNING", "UPDATE", "SET", "WHERE", "AND",
   "DELETE", "FROM", " ", "\n", "(", ")", ",", "=", "*", "$1", "$2", "$3",
   "$4", "$n"}
\* every identifier of a helper request: the table, the keys of every data
\* row, the keys of where, the returning columns
ColumnsOk(v) ==
  v.type = "object" => \A i \in DOMAIN v.keys : columnPattern(v.keys[i])
IdentifiersValid(h) ==
  /\ sanitizeTableName(h.body.table, env).valid
  /\ sanitizeColumnNames(ReturningOf(h.body)).valid
  /\ ColumnsOk(h.body.where)
  /\ IF IsArray(h.body.data)
     THEN \A i \in DOMAIN h.body.data.items : ColumnsOk(h.body.data.items[i])
     ELSE ColumnsOk(h.body.data)

\* C24: every identifier in the SQL text of the insert, update and delete
\* routes is a sanitizer output, and a request with an invalid identifier
\* executes no query.
C24_OnlySanitizedIdentifiers ==
  handled.route \in {"/insert", "/update", "/delete"} =>
    /\ \A i \in DOMAIN handled.executed :
         LET text == handled.executed[i].sql.text
         IN /\ \A part \in QuotedParts(text, 1) :
                 \/ part \in handled.sanitized
                 \/ <<"\"">> \o part \o <<"\"">> \in handled.sanitized
            /\ Unquoted(text, 1) \subseteq SqlVocabulary
    /\ ~ IdentifiersValid(handled) => handled.executed = <<>>

\* the request with every value replaced: the timeout absent, every row
\* value and where value null
BlankValues(v) ==
  IF v.type = "object" THEN Obj(v.keys, [i \in DOMAIN v.keys |-> Null]) ELSE v
Blank(body) ==
  [body EXCEPT
     !.timeout = Undefined,
     !.where = BlankValues(@),
     !.data = IF IsArray(@)
              THEN Repeat([i \in DOMAIN @.items |-> BlankValues(@.items[i])],
                          @.more)
              ELSE BlankValues(@)]

\* C25: the statement texts the server composes do not depend on the values
\* of the request (row values, where values, the timeout): they are the
\* texts composed for the same request with the values replaced.
C25_NoValueInSqlText ==
  (handled.route # "none" /\ handled.next) =>
    LET reference == Route(handled.route, Blank(handled.body), env,
                           handled.fail).executed
    IN /\ Len(reference) = Len(handled.executed)
       /\ \A i \in DOMAIN handled.executed :
            handled.executed[i].composed
              => handled.executed[i].sql = reference[i].sql

\* C26: the verdict of a validateQuery called depends on its arguments and the
\* configuration only: whatever calls came before, it is the verdict the
\* same called gets in a fresh process (so a text with a block comment is
\* rejected on every called in strict mode).
C26_VerdictIndependentOfHistory ==
  called.fn = "validateQuery" =>
    called.verdict = validateQuery(called.sql, called.params, env, 0).verdict

\* C27: validateQuery never throws, whatever sql and params are, and every
\* invalid verdict has a code and a message.
C27_ValidatorTotal ==
  called.fn = "validateQuery" =>
    /\ ~ called.verdict.threw
    /\ ~ called.verdict.valid => called.verdict.code # "" /\ called.verdict.error # ""

\* C28: in strict mode a text with a DELETE and no WHERE is rejected, a text
\* in which a semicolon is followed by a DROP statement is rejected as
\* DANGEROUS_QUERY, and DELETE ... WHERE with bind parameters is accepted.
C28_DeleteNeedsWhere ==
  (called.fn = "validateQuery" /\ env.strict /\ called.sql.type = "string") =>
    LET text == called.sql.text
    IN /\ ((\E i \in DOMAIN text : Is(text[i], "DELETE"))
           /\ ~ \E i \in DOMAIN text : Is(text[i], "WHERE"))
            => ~ called.verdict.valid
       /\ (called.sql \in {Str(t) : t \in Texts} /\ SemicolonThen(text, "DROP"))
            => called.verdict.code = "DANGEROUS_QUERY"
       /\ (text = DeleteWhere /\ called.params = Arr(<<Num(1)>>))
            => called.verdict.valid

\* C29: validateQuery("SELECT * FROM T") is rejected as BLOCKED_TABLE or
\* TABLE_NOT_ALLOWED exactly when sanitizeTableName(T) is rejected by the
\* block list or the allow list.
C29_ValidatorAgreesWithSanitizer ==
  \A name \in TableNames :
    (called.fn = "validateQuery" /\ called.sql = Str(SelectFrom(name))) =>
      (called.verdict.code \in {"BLOCKED_TABLE", "TABLE_NOT_ALLOWED"}
        <=> sanitizeTableName(Str(name), env).error
              \in {"Access to this table is not allowed",
                   "Table not in allowed list"})

\* the place of a middleware in the chain, and whether request r got past it
StageOf(name) == CHOOSE i \in DOMAIN Chain : Chain[i] = name
PassedStage(r, name) == reqs[r].pos > StageOf(name)

\* C30: a request is counted by rateLimit only after it passed every
\* access-control check, the API-key check included, and its queries are
\* executed only after it passed rateLimit and validation.
C30_StagesInOrder ==
  \A r \in 1..Len(reqs) :
    /\ reqs[r].charged =>
         /\ PassedStage(r, "ipAccessControl")
         /\ PassedStage(r, "checkIPBlock")
         /\ PassedStage(r, "apiKeyAuth")
    /\ reqs[r].executed =>
         /\ PassedStage(r, "rateLimit")
         /\ PassedStage(r, "queryRoutes")

\* the sustained and the burst count of a local record inside the windows
\* that time t falls in: 0 once the window has run out
CountInWindow(record, t) == IF WindowExpired(record, t) THEN 0 ELSE record.count
BurstCountInWindow(record, t) ==
  IF WindowExpired(record, t) \/ BurstWindowExpired(record, t) THEN 0
  ELSE record.burstCount
\* the members of a sorted set with a score above lo
CardAbove(e, lo) == ZCard(ZRemRangeByScore(Live(e, now), 0, lo))

\* C37: every rateLimit call adds exactly one to the sustained count and to
\* the burst count that the serving backend holds for the identity, allowed
\* or not.
C37_EveryCheckCharged ==
  [][Len(log') = Len(log) + 1 =>
       LET e == log'[Len(log')]
           before == memoryStore[e.ip]
           after == memoryStore'[e.ip]
       IN IF e.backend = "memory"
          THEN /\ after.count # NaN /\ after.burstCount # NaN
               /\ after.count = CountInWindow(before, now) + 1
               /\ after.burstCount = BurstCountInWindow(before, now) + 1
          ELSE /\ ZCard(redis'[RateKey(e.ip)])
                    = CardAbove(redis[RateKey(e.ip)],
                                now - RATE_LIMIT_WINDOW_MS) + 1
               /\ ZCard(redis'[BurstKey(e.ip)])
                    = CardAbove(redis[BurstKey(e.ip)], now - SECOND) + 1]_vars

C40_ChecksPerIdentity ==
  [][Len(log') = Len(log) + 1 =>
       \A other \in Identities \ {log'[Len(log')].ip} :
         /\ memoryStore'[other] = memoryStore[other]
         /\ redis'[RateKey(other)] = redis[RateKey(other)]
         /\ redis'[BurstKey(other)] = redis[BurstKey(other)]]_vars

\* a request that has its response or has been through the whole chain
Answered(r) == reqs[r].response # "" \/ reqs[r].pos > Len(Chain)

\* C31 as stated: with API_KEY configured a request gets past apiKeyAuth only
\* with the configured key, a request without key is answered
\* MISSING_API_KEY and one with another key INVALID_API_KEY; with API_KEY
\* unset in production every request is answered CONFIG_ERROR.
C31_KeyCodeForEveryRequest ==
  \A r \in 1..Len(reqs) :
    /\ (env.API_KEY # "" /\ (PassedStage(r, "apiKeyAuth") \/ reqs[r].executed))
         => reqs[r].apiKey = env.API_KEY
    /\ Answered(r) =>
         /\ (env.API_KEY # "" /\ reqs[r].apiKey = "")
              => reqs[r].response = "MISSING_API_KEY"
         /\ (env.API_KEY # "" /\ reqs[r].apiKey \notin {"", env.API_KEY})
              => reqs[r].response = "INVALID_API_KEY"
         /\ (env.API_KEY = "" /\ env.NODE_ENV = "production")
              => reqs[r].response = "CONFIG_ERROR"

\* C31, amended: the same, where the codes are those of the requests that
\* reach apiKeyAuth; a request an earlier middleware answered keeps that
\* answer and is not executed either.
C31_NoHandlerWithoutKey ==
  \A r \in 1..Len(reqs) :
    /\ (env.API_KEY # "" /\ (PassedStage(r, "apiKeyAuth") \/ reqs[r].executed))
         => reqs[r].apiKey = env.API_KEY
    /\ (env.API_KEY = "" /\ env.NODE_ENV = "production")
         => ~ PassedStage(r, "apiKeyAuth") /\ ~ reqs[r].executed
    /\ (Answered(r) /\ reqs[r].pos >= StageOf("apiKeyAuth")) =>
         /\ (env.API_KEY # "" /\ reqs[r].apiKey = "")
              => reqs[r].response = "MISSING_API_KEY"
         /\ (env.API_KEY # "" /\ reqs[r].apiKey \notin {"", env.API_KEY})
              => reqs[r].response = "INVALID_API_KEY"
         /\ (env.API_KEY = "" /\ env.NODE_ENV = "production")
              => reqs[r].response = "CONFIG_ERROR"
    /\ (Answered(r) /\ reqs[r].pos < StageOf("apiKeyAuth"))
         => ~ reqs[r].executed

\* with the key configured: one request rejected for a key of the right
\* length, another executed with the key
C31_Witness ==
  /\ env.API_KEY = "key"
  /\ \E r \in 1..Len(reqs) : \E q \in 1..Len(reqs) :
       /\ reqs[r].apiKey = "kez" /\ reqs[r].response = "INVALID_API_KEY"
       /\ reqs[q].apiKey = "key" /\ reqs[q].executed

\* ------------------------------------------------------- the error handler
\* An error as errorHandler reads it: "" is an absent string property and 0
\* an absent statusCode.
\* what the driver and the server report when a call runs out of time: the
\* server cancels a statement at the session's statement_timeout with
\* SQLSTATE 57014; the driver's own query_timeout timer and the pool's
\* connectionTimeoutMillis timer reject with a plain Error without code
StatementTimeoutError ==
  [name |-> "error", code |-> "57014", type |-> "", statusCode |-> 0,
   message |-> "canceling statement due to statement timeout", detail |-> ""]
QueryTimeoutError ==
  [name |-> "Error", code |-> "", type |-> "", statusCode |-> 0,
   message |-> "Query read timeout", detail |-> ""]
ConnectTimeoutError ==
  [name |-> "Error", code |-> "", type |-> "", statusCode |-> 0,
   message |-> "timeout exceeded when trying to connect", detail |-> ""]
TimeoutErrors ==
  {StatementTimeoutError, QueryTimeoutError, ConnectTimeoutError}

\* the codes of the switch (lines 188-247)
MappedCodes ==
  {"23505", "23503", "23502", "42P01", "42703", "57014", "ECONNREFUSED",
   "ENOTFOUND", "ETIMEDOUT", "ECONNRESET"}

Errors ==
  TimeoutErrors \cup
  [name : {"Error", "ValidationError"},
   code : MappedCodes \cup {"", "XX000", "PDF_GENERATION_ERROR"},
   type : {"", "entity.parse.failed", "entity.too.large"},
   statusCode : {0, 400},
   message : {"relation \"audit\" does not exist at 10.0.0.5"},
   detail : {"Key (email)=(a@b.c) already exists."}]

\* lines 165-276: the status and the JSON body of the response
errorHandler(err, e) ==
  LET Json(status, error, code, detail) ==
        [status |-> status, error |-> error, code |-> code,
         detail |-> IF e.NODE_ENV # "production" THEN detail ELSE ""]
  IN CASE err.code = "23505" ->
            Json(409, "Resource already exists", "DUPLICATE_ENTRY", err.detail)
       [] err.code = "23503" ->
            Json(400, "Referenced resource not found", "FOREIGN_KEY_VIOLATION",
                 err.detail)
       [] err.code = "23502" ->
            Json(400, "Missing required field", "NOT_NULL_VIOLATION",
                 err.detail)
       [] err.code = "42P01" -> Json(400, "Table not found", "TABLE_NOT_FOUND", "")
       [] err.code = "42703" ->
            Json(400, "Column not found", "COLUMN_NOT_FOUND", "")
       [] err.code = "57014" ->
            Json(408, "Query timeout exceeded", "QUERY_TIMEOUT", "")
       [] err.code \in {"ECONNREFUSED", "ENOTFOUND", "ETIMEDOUT"} ->
            Json(503, "Database connection error", "DB_CONNECTION_ERROR", "")
       [] err.code = "ECONNRESET" ->
            Json(503, "Database connection reset", "DB_CONNECTION_RESET", "")
       [] OTHER ->
            IF err.name = "ValidationError"
            THEN Json(400, err.message, "VALIDATION_ERROR", "")
            ELSE IF err.type = "entity.parse.failed"
            THEN Json(400, "Invalid JSON in request body", "INVALID_JSON", "")
            ELSE IF err.type = "entity.too.large"
            THEN Json(413, "Request payload too large", "PAYLOAD_TOO_LARGE", "")
            ELSE Json(IF err.statusCode # 0 THEN err.statusCode ELSE 500,
                      IF e.NODE_ENV = "production"
                      THEN "Internal server error" ELSE err.message,
                      IF err.code # "" THEN err.code ELSE "INTERNAL_ERROR",
                      "")

\* a route's catch block hands the error to Express (query.js lines 32-33),
\* which calls errorHandler
HandleError(err) ==
  /\ handled' = [route |-> "errorHandler", err |-> err,
                 response |-> errorHandler(err, env)]
  /\ UNCHANGED <<env, lastIndex, called, now, redisClient, isConnected,
                 memoryStore, redis, log, blockEnd, last, pipes, reqs,
                 database>>

NextErrors == \E err \in Errors : HandleError(err)

\* in production and outside it
SpecErrors == InitValidator /\ [][NextErrors]_vars

\* C32: the response to an error whose code is not one of the mapped codes
\* has the code INTERNAL_ERROR and the fixed message, and carries neither
\* the exception's message nor its code, in production and outside it.
C32_UnmappedErrorSanitized ==
  (handled.route = "errorHandler" /\ handled.err.code \notin MappedCodes) =>
     /\ handled.response.code = "INTERNAL_ERROR"
     /\ handled.response.error = "Internal server error"
     /\ handled.response.error # handled.err.message
     /\ handled.err.code # "" => handled.response.code # handled.err.code

\* C33: an error that reports a call running out of time (the statement
\* timeout of the session, the driver's query_timeout, the wait for a
\* connection) is answered QUERY_TIMEOUT, and no other error is.
C33_TimeoutClassified ==
  handled.route = "errorHandler" =>
     (handled.response.code = "QUERY_TIMEOUT"
        <=> (handled.err \in TimeoutErrors \/ handled.err.code = "57014"))

\* transaction() has issued the COMMIT of line 612 or the ROLLBACK of line 615
Concluded(run) ==
  \E k \in 1..Len(run.issued) :
     \/ run.issued[k].command = "ROLLBACK"
     \/ run.issued[k].command = "COMMIT" /\ run.issued[k].index = 0

\* C34: a transaction that POST /api/query/transaction started comes to its
\* end, whether or not its client disconnected; when it took a connection it
\* has then issued COMMIT or ROLLBACK and the connection's lease is released.
C34_TransactionCleansUp ==
  (runs[1].kind = "transaction") ~>
     (/\ runs[1].pc = "done"
      /\ leases[1].conn # 0 => (Concluded(runs[1]) /\ leases[1].released))

\* the client went away while the transaction ran, and the transaction has
\* committed and released its connection
C34_Witness ==
  /\ runs[1].disconnected /\ runs[1].pc = "done"
  /\ \E k \in 1..Len(runs[1].issued) :
        runs[1].issued[k].command = "COMMIT" /\ runs[1].issued[k].index = 0
  /\ runs[1].thrown = NoError
  /\ leases[1].released /\ leases[1].releaseTimeout = "cleared"

\* C35: the commands transaction() issues are, on the one connection of its
\* lease, BEGIN, the statement-timeout setting, the request's statements in
\* list order and COMMIT, up to the first that fails, and then at most a
\* ROLLBACK, after which nothing is issued: COMMIT is issued only when no
\* earlier step failed and ROLLBACK only when a step failed.
C35_TransactionProtocol ==
  LET run == runs[1]
      n == Len(run.queries)
      m == Len(run.issued)
      Protocol == <<"BEGIN", "SET">> \o run.queries \o <<"COMMIT">>
      Index(k) == IF 3 <= k /\ k <= n + 2 THEN k - 2 ELSE 0
      OnProtocol(k) ==
        /\ k <= n + 3
        /\ run.issued[k].command = Protocol[k]
        /\ run.issued[k].index = Index(k)
      IsRollback(k) == run.issued[k].command = "ROLLBACK"
  IN run.kind = "transaction" =>
       /\ \A k \in 1..m : run.issued[k].conn = leases[1].conn
       /\ \A k \in 1..m : OnProtocol(k) \/ (IsRollback(k) /\ k = m /\ k > 1)
       /\ (\E k \in 1..m : IsRollback(k)) => run.error # NoError
       /\ (m >= n + 3 /\ OnProtocol(n + 3) /\ run.error # NoError)
            => run.error.step = "COMMIT"

\* the second of two statements failed: BEGIN, SET, both statements and the
\* ROLLBACK were issued, and the connection is released
C35_Witness ==
  /\ runs[1].kind = "transaction" /\ runs[1].pc = "done"
  /\ Len(runs[1].queries) = 2
  /\ runs[1].error = Failure("statement", 2)
  /\ Len(runs[1].issued) = 5
  /\ runs[1].issued[5].command = "ROLLBACK"
  /\ leases[1].released

\* C36: for every lease of getClient() the pool's own release is called at
\* most once, whatever the order of the caller's release calls and the
\* release timeout; a released lease has no pending timeout, and the timeout
\* a release cleared never fires.
C36_PoolReleaseAtMostOnce ==
  /\ [](\A h \in Holders :
          /\ leases[h].poolReleases <= 1
          /\ leases[h].released => leases[h].releaseTimeout # "pending"
          /\ leases[h].releaseTimeout = "cleared" => leases[h].diagnostics = 0)
  /\ [][\A h \in Holders :
          leases[h].released
            => /\ leases'[h].releaseTimeout = leases[h].releaseTimeout
               /\ leases'[h].poolReleases = leases[h].poolReleases]_vars

\* one lease was released by its caller, who called release again, and the
\* next lease of the connection's slot was taken back by the timeout
C36_Witness ==
  \E h \in Holders : \E g \in Holders :
    /\ leases[h].releaseTimeout = "cleared" /\ runs[h].calls = MaxReleaseCalls
    /\ leases[h].poolReleases = 1
    /\ leases[g].releaseTimeout = "fired" /\ runs[g].calls > 0
    /\ leases[g].poolReleases = 1

\* C39: a connection that is idle in the pool, or that the pool has handed to
\* the next caller, has the default statement timeout: the timeout a
\* transaction set did not stay on its session.
C39_TimeoutConfined ==
  \A c \in Conns :
    (pool[c].open /\ (~pool[c].leased \/ (Held(2) /\ leases[2].conn = c)))
       => pool[c].statement_timeout = DB_STATEMENT_TIMEOUT

====
